---- MODULE Spec2Model ----
(***************************************************************************)
(* A model of the OTP-Preprocessor pipeline: the BGT download client      *)
(* (downloader/bgt.py), the WFS 2.0.0 feature client (downloader/wfs.py), *)
(* the schema harmonizer (utils/filter.py), the region orchestrator       *)
(* (process_map.py) and the rasterizer (processors/rasterizer.py).        *)
(*                                                                         *)
(* Each component has its own variables and its own specification; a      *)
(* specification keeps the variables of the other components at rest.     *)
(***************************************************************************)
EXTENDS Integers, Sequences, FiniteSets, TLC

VARIABLES
    \* ---- BGTDownloader.download (downloader/bgt.py)
    bgt_pc,        \* position inside download()
    bgt_meta,      \* what fetch() returned: "handle", or NoneValue
    bgt_resp,      \* the last poll response: [status, has_progress, progress]
    bgt_seen,      \* statuses of the poll responses received so far
    bgt_task,      \* preparartion_task: [set, id], NoTask for None
    bgt_sink,      \* progress_host: [present, tasks]
    bgt_dst,       \* the destination file: [opened, chunks]
    bgt_left,      \* chunks the download response still holds
    bgt_err,       \* the exception download() raised, or "none"
    \* ---- WFS200.stream_feature (downloader/wfs.py)
    wfs_pc,        \* position inside stream_feature()
    wfs_data,      \* the features the service holds for the query
    wfs_page,      \* max_features
    wfs_markers,   \* the page start indices still to fetch
    wfs_requests,  \* start indices of the page requests issued so far
    wfs_mode,      \* dst_mode: "w" for the first page write, then "a"
    wfs_schema,    \* schema read back from the destination, or NoSchema
    wfs_cols,      \* the attribute columns of the pages the service returns
    wfs_suffix,    \* fid_suffix
    wfs_renamed,   \* the page last written: page column -> name written
    wfs_start,     \* start_index
    wfs_exact,     \* whether the service returns exactly the rows asked for
    wfs_passed,    \* the schema argument of each get_feature call so far
    wfs_writes,    \* the mode of each to_file call so far
    \* ---- one WFS200 client instance and its schema cache (downloader/wfs.py)
    sch_pc,        \* "ready" between calls, "streaming" inside stream_feature
    sch_cache,     \* self._schema_cache: type name -> schema, or Absent
    sch_log,       \* the remote get_schema requests so far: <<typename, outcome>>
    sch_calls,     \* the methods called so far: <<method, typename>>
    sch_left,      \* pages the running stream_feature has still to fetch
    \* ---- WFS200.get_hits (downloader/wfs.py)
    hits_pc,       \* position inside get_hits()
    hits_resp,     \* the service's response: [has_length, large, body, count, text]
    hits_read,     \* have_read: whether the body was read to measure it
    hits_out,      \* how the call ended: [kind, value, text]
    \* ---- bgt_convert (utils/converter.py)
    cnv_pc,        \* position inside bgt_convert()
    cnv_args,      \* [via, fix_schema_source, clean_up, use_dummy]
    cnv_todo,      \* zfp.namelist(): the archive members still to convert
    cnv_cur,       \* the extracted file of the member being converted
    cnv_disk,      \* names of the extracted files present in dst_dir
    cnv_zip,       \* whether the BGT zip file exists
    cnv_map,       \* dst_map: <<layer name, features of the converted layer>>
    cnv_opens,     \* the gdal.OpenEx calls so far: <<member, schemaLocation seen>>
    cnv_err,       \* what bgt_convert raised, or "none"
    \* ---- the files of one region's working directory
    fs,            \* path -> NoFile or the layer stored there
    \* ---- MapProcessor.download_bag (process_map.py)
    bag_pc,        \* position inside one iteration of download_bag()
    bag_filter,    \* whether self.bag_filter is a non-empty statement
    bag_map,       \* the region's layer_map entry for "pand": a path or NoneValue
    \* ---- prepare_data (utils/filter.py)
    prep_pc,       \* position inside prepare_data()
    prep_in,       \* the arguments of the call
    prep_out,      \* what the call did: [raised, layer]
    \* ---- MapProcessor.prepare (process_map.py), one region
    mp_pc,         \* position inside one iteration of prepare()
    mp_in,         \* kwargs["layer_map"]: <<layer name, layer file>> in dict order
    mp_todo,       \* the items of src_dict.items() still to come
    mp_cur,        \* the item being prepared, its file as it is on disk
    mp_dst,        \* dst_map: <<layer name, prepared layer>>
    mp_log,        \* what has run so far: <<layer name, "alter" or "prepare">>
    \* ---- MapProcessor.process (process_map.py)
    proc_pc,       \* the generator that is running, or "returned"/"raised"
    proc_roi,      \* the features of the ROI source still to be read
    proc_cur,      \* the id of the region the pipeline is working on
    proc_log,      \* the stage events so far: <<region, stage, event>>
    proc_bag,      \* self.pand2bag
    proc_out,      \* the list process() is building
    proc_zip,      \* region id -> feature_name, the stem of its archive path
    proc_files,    \* feature_name -> the region whose data each file holds
    proc_snap,     \* the files of each region of proc_out when it completed
    \* ---- rasterize_layers (processors/rasterizer.py)
    rst_pc,        \* position inside rasterize_layers()
    rst_in,        \* the arguments of the call
    rst_tiles,     \* the (rf, cf) offsets product() has still to yield
    rst_dst,       \* the destination image: band -> row -> col -> value
    rst_wins,      \* the windows handed to dst.write so far
    rst_disk       \* what dst_image holds: "absent", "old" for the file that
                   \* was there before the call, "new" for rst_dst

bgtVars  == <<bgt_pc, bgt_meta, bgt_resp, bgt_seen, bgt_task, bgt_sink,
              bgt_dst, bgt_left, bgt_err>>
wfsVars  == <<wfs_pc, wfs_data, wfs_page, wfs_markers, wfs_requests,
              wfs_mode, wfs_schema, wfs_cols, wfs_suffix, wfs_renamed,
              wfs_start, wfs_exact, wfs_passed, wfs_writes>>
schVars  == <<sch_pc, sch_cache, sch_log, sch_calls, sch_left>>
hitsVars == <<hits_pc, hits_resp, hits_read, hits_out>>
cnvVars  == <<cnv_pc, cnv_args, cnv_todo, cnv_cur, cnv_disk, cnv_zip, cnv_map,
              cnv_opens, cnv_err>>
bagVars  == <<bag_pc, bag_filter, bag_map>>
prepVars == <<prep_pc, prep_in, prep_out>>
procVars == <<proc_pc, proc_roi, proc_cur, proc_log, proc_bag, proc_out,
              proc_zip, proc_files, proc_snap>>
rstVars  == <<rst_pc, rst_in, rst_tiles, rst_dst, rst_wins, rst_disk>>
mpVars   == <<mp_pc, mp_in, mp_todo, mp_cur, mp_dst, mp_log>>
vars     == <<bgtVars, wfsVars, schVars, hitsVars, cnvVars, fs, bagVars, prepVars, procVars, rstVars, mpVars>>

\* what the actions of one component leave alone
notBgt   == <<wfsVars, schVars, hitsVars, cnvVars, fs, bagVars, prepVars, procVars, rstVars, mpVars>>
notWfs   == <<bgtVars, schVars, hitsVars, cnvVars, bagVars, prepVars, procVars, rstVars, mpVars>>
notSch   == <<bgtVars, wfsVars, hitsVars, cnvVars, fs, bagVars, prepVars, procVars, rstVars, mpVars>>
notCnv   == <<bgtVars, wfsVars, schVars, hitsVars, fs, bagVars, prepVars, procVars, rstVars, mpVars>>
notHits  == <<bgtVars, wfsVars, schVars, cnvVars, fs, bagVars, prepVars, procVars, rstVars, mpVars>>
notBag   == <<bgtVars, schVars, hitsVars, cnvVars, prepVars, procVars, rstVars, mpVars>>
notPrep  == <<bgtVars, wfsVars, schVars, hitsVars, cnvVars, fs, bagVars, procVars, rstVars, mpVars>>
notProc  == <<bgtVars, wfsVars, schVars, hitsVars, cnvVars, fs, bagVars, prepVars, rstVars, mpVars>>
notMp    == <<bgtVars, wfsVars, schVars, hitsVars, cnvVars, fs, bagVars, prepVars, procVars, rstVars>>
notRst   == <<bgtVars, wfsVars, schVars, hitsVars, cnvVars, fs, bagVars, prepVars, procVars, mpVars>>

NoneValue == "None"
NoTask    == [set |-> FALSE, id |-> 0]
NaN       == "NaN"
NoCrs     == "None"
NoFile    == [exists |-> FALSE, crs |-> NoCrs, cols |-> {}, rows |-> <<>>]

Min(a, b) == IF a <= b THEN a ELSE b

(***************************************************************************)
(* Bounds of the model.                                                    *)
(***************************************************************************)
MaxPolls  == 4   \* poll responses one download() may receive
MaxChunks == 2   \* chunks of the payload
MaxTasks  == 1   \* tasks the progress sink holds before the call
MaxRows   == 2   \* rows of a layer handed to prepare_data
MaxHits   == 3   \* features the feature service holds for a query
MaxPage   == 2   \* max_features of stream_feature
MaxRegions == 2  \* features of the ROI source
MaxDim    == 3   \* height and width of the reference image, and of a tile
MaxCalls  == 3   \* method calls made on one WFS200 client
MaxFeats  == 2   \* features of one archive member
MaxStart  == 1   \* start_index of stream_feature

(***************************************************************************)
(* BGTDownloader (downloader/bgt.py)                                       *)
(***************************************************************************)
StatusCodes == {200, 201, 202, 204, 304, 404, 500}

\* requests.Response.raise_for_status as the module calls it: it raises for
\* the client and server error classes and returns None for any other status
RaisesForStatus(status) == status >= 400 /\ status < 600

\* fetch(): the handle for a 202 with a JSON body, ValueError for a 202 with
\* another body, HTTPError through raise_for_status, else falls off the end
\* of the function and returns None.
Fetch(status, is_json) ==
    IF status = 202
    THEN IF is_json
         THEN [raised |-> "none",
               value  |-> "handle"]
         ELSE [raised |-> "ValueError", value |-> NoneValue]
    ELSE IF RaisesForStatus(status)
         THEN [raised |-> "HTTPError", value |-> NoneValue]
         ELSE [raised |-> "none", value |-> NoneValue]

\* `if preparartion_task:` -- the truth value of a task id (an int)
TaskTruthy(task) == task.set /\ task.id # 0

\* progress_host.update(task_id, completed=...)
SinkUpdate(sink, task, completed) ==
    [sink EXCEPT !.tasks[task.id + 1].completed = completed]

PollResponses ==
    [status : StatusCodes, has_progress : BOOLEAN, progress : {10, 45, 100}]

NoResponse == [status |-> 0, has_progress |-> FALSE, progress |-> 10]

BgtRaise(err) ==
    /\ bgt_pc' = "raised"
    /\ bgt_err' = err

\* lines 294-298: meta = self.fetch(...)
BgtFetch ==
    /\ bgt_pc = "start"
    /\ \E status \in StatusCodes, is_json \in BOOLEAN :
          LET r == Fetch(status, is_json) IN
          IF r.raised # "none"
          THEN /\ BgtRaise(r.raised)
               /\ UNCHANGED bgt_meta
          ELSE /\ bgt_pc' = "fetched"
               /\ bgt_meta' = r.value
               /\ UNCHANGED bgt_err
    /\ UNCHANGED <<bgt_resp, bgt_seen, bgt_task, bgt_sink, bgt_dst, bgt_left>>
    /\ UNCHANGED notBgt

\* lines 299-310: the first poll and the preparation task
BgtFirstPoll ==
    /\ bgt_pc = "fetched"
    /\ IF bgt_meta = NoneValue
       THEN \* meta["downloadEndPoint"] on None
            /\ BgtRaise("TypeError")
            /\ UNCHANGED <<bgt_resp, bgt_seen, bgt_task, bgt_sink>>
       ELSE \E resp \in PollResponses :
            /\ bgt_pc' = "polling"
            /\ bgt_resp' = resp
            /\ bgt_seen' = Append(bgt_seen, resp.status)
            /\ IF bgt_sink.present
               THEN /\ bgt_task' = [set |-> TRUE, id |-> Len(bgt_sink.tasks)]
                    /\ bgt_sink' = [bgt_sink EXCEPT !.tasks =
                          Append(@, [completed |-> 0, visible |-> TRUE])]
               ELSE /\ bgt_task' = NoTask
                    /\ UNCHANGED bgt_sink
            /\ UNCHANGED bgt_err
    /\ UNCHANGED <<bgt_meta, bgt_dst, bgt_left>>
    /\ UNCHANGED notBgt

\* a loop that waits for the archive to be ready, whatever else is answered
LoopContinuesUntilReady(status) == status # 201

\* line 311: `while response.status_code == 200`
LoopContinues(status) == status = 200

\* lines 311-321: one turn of the polling loop
BgtPollAgain ==
    /\ bgt_pc = "polling"
    /\ LoopContinues(bgt_resp.status)
    /\ Len(bgt_seen) < MaxPolls
    /\ IF TaskTruthy(bgt_task) /\ ~bgt_resp.has_progress
       THEN \* response.json()["progress"] on a body without the key
            /\ BgtRaise("KeyError")
            /\ UNCHANGED <<bgt_resp, bgt_seen, bgt_sink>>
       ELSE /\ bgt_sink' = IF TaskTruthy(bgt_task)
                           THEN SinkUpdate(bgt_sink, bgt_task, bgt_resp.progress)
                           ELSE bgt_sink
            /\ \E resp \in PollResponses :
                  /\ bgt_resp' = resp
                  /\ bgt_seen' = Append(bgt_seen, resp.status)
            /\ UNCHANGED <<bgt_pc, bgt_err>>
    /\ UNCHANGED <<bgt_meta, bgt_task, bgt_dst, bgt_left>>
    /\ UNCHANGED notBgt

\* a download that writes whatever status ended the loop
OpensDestinationAlways(status) == status # 200

\* line 322: the branch taken once the loop has ended
OpensDestination(status) == status = 201

\* lines 322-354 and 373-374: after the loop
BgtAfterLoop ==
    /\ bgt_pc = "polling"
    /\ ~LoopContinues(bgt_resp.status)
    /\ IF OpensDestination(bgt_resp.status)
       THEN IF bgt_task.set /\ ~bgt_resp.has_progress
            THEN /\ BgtRaise("KeyError")
                 /\ UNCHANGED <<bgt_sink, bgt_dst, bgt_left>>
            ELSE \E dl_status \in {200, 404}, n \in 0..MaxChunks :
                 /\ IF RaisesForStatus(dl_status)
                    THEN /\ BgtRaise("HTTPError")
                         /\ UNCHANGED <<bgt_dst, bgt_left>>
                    ELSE /\ bgt_pc' = "streaming"
                         /\ bgt_dst' = [opened |-> TRUE, chunks |-> 0]
                         /\ bgt_left' = n
                         /\ UNCHANGED bgt_err
                 /\ bgt_sink' =
                       IF ~bgt_task.set THEN bgt_sink
                       ELSE LET s1 == SinkUpdate(bgt_sink, bgt_task, bgt_resp.progress)
                                s2 == IF bgt_resp.progress >= 100
                                      THEN [s1 EXCEPT !.tasks[bgt_task.id + 1].visible = FALSE]
                                      ELSE s1
                            IN IF RaisesForStatus(dl_status) THEN s2
                               ELSE [s2 EXCEPT !.tasks =
                                       Append(@, [completed |-> 0, visible |-> TRUE])]
       ELSE /\ IF RaisesForStatus(bgt_resp.status)
               THEN BgtRaise("HTTPError")
               ELSE /\ bgt_pc' = "returned"
                    /\ UNCHANGED bgt_err
            /\ UNCHANGED <<bgt_sink, bgt_dst, bgt_left>>
    /\ UNCHANGED <<bgt_meta, bgt_resp, bgt_seen, bgt_task>>
    /\ UNCHANGED notBgt

\* lines 355-364: dst.write(chunk); dst.flush()
BgtWriteChunk ==
    /\ bgt_pc = "streaming"
    /\ bgt_left > 0
    /\ bgt_dst' = [bgt_dst EXCEPT !.chunks = @ + 1]
    /\ bgt_left' = bgt_left - 1
    /\ UNCHANGED <<bgt_pc, bgt_meta, bgt_resp, bgt_seen, bgt_task, bgt_sink, bgt_err>>
    /\ UNCHANGED notBgt

\* lines 365-372: the payload is exhausted, download() returns
BgtFinish ==
    /\ bgt_pc = "streaming"
    /\ bgt_left = 0
    /\ bgt_pc' = "returned"
    /\ UNCHANGED <<bgt_meta, bgt_resp, bgt_seen, bgt_task, bgt_sink, bgt_dst,
                   bgt_left, bgt_err>>
    /\ UNCHANGED notBgt

BgtStart ==
    /\ bgt_pc = "start"
    /\ bgt_meta = NoneValue
    /\ bgt_resp = NoResponse
    /\ bgt_seen = <<>>
    /\ bgt_task = NoTask
    /\ bgt_sink \in
         {[present |-> FALSE, tasks |-> <<>>]} \cup
         {[present |-> TRUE,
           tasks |-> [i \in 1..n |-> [completed |-> 0, visible |-> TRUE]]] :
             n \in 0..MaxTasks}
    /\ bgt_dst = [opened |-> FALSE, chunks |-> 0]
    /\ bgt_left = 0
    /\ bgt_err = "none"

BgtIdle ==
    /\ bgt_pc = "idle"
    /\ bgt_meta = NoneValue
    /\ bgt_resp = NoResponse
    /\ bgt_seen = <<>>
    /\ bgt_task = NoTask
    /\ bgt_sink = [present |-> FALSE, tasks |-> <<>>]
    /\ bgt_dst = [opened |-> FALSE, chunks |-> 0]
    /\ bgt_left = 0
    /\ bgt_err = "none"

BgtNext ==
    \/ BgtFetch
    \/ BgtFirstPoll
    \/ BgtPollAgain
    \/ BgtAfterLoop
    \/ BgtWriteChunk
    \/ BgtFinish

(***************************************************************************)
(* prepare_data (utils/filter.py)                                          *)
(*                                                                         *)
(* A layer file is [exists, crs, cols, rows]; a row is [geom, empty, src,  *)
(* year, dn, idx, inside]: its geometry type, whether the geometry is      *)
(* empty, the value of the attribute the class code is inferred from, its  *)
(* construction year, the injected attribute, its row index and whether it *)
(* lies inside the region polygon.                                         *)
(* A cell of a column the row never had holds NaN (NoYear for the year).   *)
(***************************************************************************)
NoYear == 0

Cutoff == 2022

\* a filter that keeps every row
FilterGeomKeepAll(rows, geom_types) == rows

\* line 104: gdf[gdf.geom_type.isin(geom_types)]
FilterGeom(rows, geom_types) ==
    LET Keep(r) == r.geom \in geom_types IN SelectSeq(rows, Keep)

\* lines 107-111: pd.to_datetime(..., errors='coerce') on the year column
ParseYear(y) == IF y >= 1 /\ y <= 9999 THEN y ELSE NoYear

\* lines 113-117: the GeoDataFrame holding the placeholder row; it has a
\* geometry column only and takes the CRS of the filtered frame
Dummy(crs) ==
    [exists |-> TRUE,
     crs    |-> crs,
     cols   |-> {"geometry"},
     rows   |-> << [geom |-> "MultiPolygon", empty |-> TRUE, src |-> NaN,
                    year |-> NoYear, dn |-> NaN, idx |-> 0, inside |-> TRUE] >>]

\* line 118: pd.concat(objs=[gdf, dummy], ignore_index=True): the union of
\* the columns, the rows of both, the CRS when both frames agree on it
Concat(gdf, dummy) ==
    [exists |-> TRUE,
     crs    |-> IF gdf.crs = dummy.crs THEN gdf.crs ELSE NoCrs,
     cols   |-> gdf.cols \cup dummy.cols,
     rows   |-> gdf.rows \o dummy.rows]

EmptyMap == [k \in {} |-> NaN]

\* Series.map(value_map): the mapped value, NaN for a key the dict lacks
MapValue(value_map, key) ==
    IF key \in DOMAIN value_map THEN value_map[key] ELSE NaN

\* a lookup without the fallback fill
FillNaMissing(v, default_fill) == v

\* line 121: .fillna(default_fill) on one cell
FillNa(v, default_fill) == IF v = NaN THEN default_fill ELSE v

\* lines 119-123: the injected attribute of one row
Inject(r, args) ==
    IF args.is_dict
    THEN [r EXCEPT !.dn = FillNa(MapValue(args.value_map, r.src), args.default_fill)]
    ELSE [r EXCEPT !.dn = args.value]

\* a missing relatieveHoogteligging (the column is a small signed level)
NoHeight == 99

\* the cell of the sort_by column: the construction year, or the field h
\* that holds relatieveHoogteligging
SortKey(r, by) == IF by = "year" THEN r.year ELSE r.h
NoKey(by)      == IF by = "year" THEN NoYear ELSE NoHeight

\* sort_values puts a row before another when its key is smaller (larger
\* when descending); rows without a key go last
Before(a, b, asc, by) ==
    IF SortKey(a, by) = NoKey(by) THEN FALSE
    ELSE IF SortKey(b, by) = NoKey(by) THEN TRUE
    ELSE IF asc THEN SortKey(a, by) < SortKey(b, by)
         ELSE SortKey(a, by) > SortKey(b, by)

RECURSIVE InsertRow(_, _, _, _)
InsertRow(r, sorted, asc, by) ==
    IF sorted = <<>> THEN <<r>>
    ELSE IF Before(r, Head(sorted), asc, by)
         THEN <<r>> \o sorted
         ELSE <<Head(sorted)>> \o InsertRow(r, Tail(sorted), asc, by)

RECURSIVE SortRows(_, _, _)
\* lines 124-125: gdf.sort_values(by=sort_by, ascending=sort_asc)
SortRows(rows, asc, by) ==
    IF rows = <<>> THEN <<>>
    ELSE InsertRow(rows[Len(rows)],
                   SortRows(SubSeq(rows, 1, Len(rows) - 1), asc, by), asc, by)

\* lines 102-128 for one layer: [raised, layer]
PrepareData(layer, args) ==
    LET g1 == IF args.has_geom_types
              THEN [layer EXCEPT !.rows = FilterGeom(layer.rows, args.geom_types)]
              ELSE layer
        g2 == IF args.infer_datetime
              THEN [g1 EXCEPT !.rows =
                      [i \in 1..Len(g1.rows) |->
                          [g1.rows[i] EXCEPT !.year = ParseYear(@)]]]
              ELSE g1
        g3 == IF g2.rows = <<>> THEN Concat(g2, Dummy(g2.crs)) ELSE g2
        g4 == IF args.has_new_attr
              THEN [g3 EXCEPT !.cols = @ \cup {"DN"},
                              !.rows = [i \in 1..Len(g3.rows) |-> Inject(g3.rows[i], args)]]
              ELSE g3
        g5 == IF args.sort THEN [g4 EXCEPT !.rows = SortRows(g4.rows, args.sort_asc,
                                                              args.sort_by)]
              ELSE g4
    IN  IF args.has_new_attr /\ args.is_dict /\ "src" \notin g3.cols
        THEN [raised |-> "KeyError", layer |-> layer]      \* gdf[infer_attr]
        ELSE IF args.has_new_attr /\ args.is_dict /\ args.default_fill = NaN
        THEN [raised |-> "ValueError", layer |-> layer]    \* fillna(None)
        ELSE [raised |-> "none", layer |-> g5]

(***************************************************************************)
(* WFS200.stream_feature (downloader/wfs.py)                               *)
(***************************************************************************)
NoSchema == [set |-> FALSE, cols |-> {}]
PandPath == "bag_pand.gpkg"
ConvPath == "uuid4.gpkg"
Paths    == {PandPath, ConvPath}
BagCrs   == "EPSG:28992"

\* range(start, stop, step) as a sequence
RECURSIVE Range(_, _, _)
Range(start, stop, step) ==
    IF start >= stop THEN <<>> ELSE <<start>> \o Range(start + step, stop, step)

\* markers that stop at the last full page
MarkersFullPages(start_index, total_hits, max_features) ==
    Range(start_index, (total_hits \div max_features) * max_features, max_features)

\* line 251: markers = tuple(range(start_index, total_hits, max_features))
Markers(start_index, total_hits, max_features) ==
    Range(start_index, total_hits, max_features)

\* lines 261-279: the service's answer to a page request: at most
\* max_features of the matching features, from start_index on
GetFeature(data, start_index, max_features) ==
    SubSeq(data, start_index + 1, Min(start_index + max_features, Len(data)))

\* the number of rows a page request for max_features rows may be answered
\* with: that many (fewer when the data ends), or, from a service that
\* applies a page limit of its own, any number from one row on
RowsServed(exact, max_features) ==
    IF exact THEN {max_features} ELSE 1..(max_features + 1)

\* lines 303-305: fiona.open(dst_file).schema
ReadSchema(file) == [set |-> TRUE, cols |-> file.cols]

\* lines 280-281: gdf.index = range(marker, marker + gdf.shape[0])
Reindex(rows, marker) ==
    [i \in 1..Len(rows) |-> [rows[i] EXCEPT !.idx = marker + i - 1]]

\* str.upper() on the suffixes of the model
Upper(suffix) == IF suffix = "_original" THEN "_ORIGINAL" ELSE suffix

\* f"{stem}{suffix}" on the names of the model
Join(stem, suffix) ==
    CASE stem = "fid" /\ suffix = "_original" -> "fid_original"
      [] stem = "fid" /\ suffix = "_ORIGINAL" -> "fid_ORIGINAL"
      [] stem = "fid" /\ suffix = "_X"        -> "fid_X"
      [] stem = "FID" /\ suffix = "_original" -> "FID_original"
      [] stem = "FID" /\ suffix = "_ORIGINAL" -> "FID_ORIGINAL"
      [] stem = "FID" /\ suffix = "_X"        -> "FID_X"

\* a mapping that appends the suffix as given to both names
ColumnMappingsVerbatim(fid_suffix) ==
    [name \in {"fid", "FID"} |-> Join(name, fid_suffix)]

\* lines 282-285: column_mappings
ColumnMappings(fid_suffix) ==
    [name \in {"fid", "FID"} |->
        IF name = "fid" THEN Join("fid", fid_suffix)
        ELSE Join("FID", Upper(fid_suffix))]

\* lines 286-291: a name of column_mappings.values() is already a column
Collides(cols, fid_suffix) ==
    \E name \in {"fid", "FID"} : ColumnMappings(fid_suffix)[name] \in cols

\* lines 292-295: gdf.rename(columns=column_mappings), as page column ->
\* new name
Rename(cols, fid_suffix) ==
    [c \in cols |-> IF c \in {"fid", "FID"} THEN ColumnMappings(fid_suffix)[c] ELSE c]

\* lines 296-301: gdf.to_file(filename, layer, mode): 'w' creates the layer
\* anew, 'a' appends to the layer the file holds
ToFile(file, rows, mode, cols) ==
    IF mode = "w"
    THEN [exists |-> TRUE, crs |-> BagCrs,
          cols |-> {"geometry"} \cup cols, rows |-> rows]
    ELSE [file EXCEPT !.rows = @ \o rows]

\* a page loop that keeps the mode it was called with
NextModeKept(mode) == mode

\* line 302: dst_mode = 'a'
NextMode(mode) == "a"

\* lines 246-259: the hit count and the page markers
WfsGetHits ==
    /\ wfs_pc = "start"
    /\ \/ /\ wfs_pc' = "loop"
          /\ wfs_markers' = Markers(wfs_start, Len(wfs_data), wfs_page)
       \/ /\ wfs_pc' = "raised"       \* get_hits raised
          /\ UNCHANGED wfs_markers
    /\ UNCHANGED <<wfs_data, wfs_page, wfs_requests, wfs_mode, wfs_schema, fs,
                   wfs_cols, wfs_suffix, wfs_renamed, wfs_start, wfs_exact,
                   wfs_passed, wfs_writes>>
    /\ UNCHANGED notWfs

\* lines 260-307: one turn of the page loop
WfsPage ==
    /\ wfs_pc = "loop"
    /\ wfs_markers # <<>>
    /\ \E served \in RowsServed(wfs_exact, wfs_page) :
       LET marker == Head(wfs_markers)
           gdf    == Reindex(GetFeature(wfs_data, marker, served), marker)
       IN  /\ wfs_requests' = Append(wfs_requests, marker)
           /\ wfs_passed' = Append(wfs_passed, wfs_schema)
           /\ \/ /\ ~Collides(wfs_cols, wfs_suffix)
                 /\ LET renamed == Rename(wfs_cols, wfs_suffix) IN
                    /\ wfs_renamed' = renamed
                    /\ fs' = [fs EXCEPT ![PandPath] =
                                 ToFile(@, gdf, wfs_mode, {renamed[c] : c \in wfs_cols})]
                 /\ wfs_writes' = Append(wfs_writes, wfs_mode)
                 /\ wfs_mode' = NextMode(wfs_mode)
                 /\ wfs_schema' = IF wfs_schema = NoSchema
                                  THEN ReadSchema(fs'[PandPath]) ELSE wfs_schema
                 /\ wfs_markers' = Tail(wfs_markers)
                 /\ UNCHANGED wfs_pc
              \/ /\ Collides(wfs_cols, wfs_suffix)
                 /\ wfs_pc' = "raised"   \* lines 288-291: ValueError
                 /\ UNCHANGED <<fs, wfs_mode, wfs_schema, wfs_markers, wfs_renamed,
                                wfs_writes>>
              \/ /\ wfs_pc' = "raised"   \* get_feature raised
                 /\ UNCHANGED <<fs, wfs_mode, wfs_schema, wfs_markers, wfs_renamed,
                                wfs_writes>>
    /\ UNCHANGED <<wfs_data, wfs_page, wfs_cols, wfs_suffix, wfs_start, wfs_exact>>
    /\ UNCHANGED notWfs

\* lines 308-310: return dst_file
WfsReturn ==
    /\ wfs_pc = "loop"
    /\ wfs_markers = <<>>
    /\ wfs_pc' = "returned"
    /\ UNCHANGED <<wfs_data, wfs_page, wfs_markers, wfs_requests, wfs_mode,
                   wfs_schema, fs, wfs_cols, wfs_suffix, wfs_renamed, wfs_start,
                   wfs_exact, wfs_passed, wfs_writes>>
    /\ UNCHANGED notWfs

\* the features of the building service: inside the region polygon or only
\* inside its bounding box, built before or after the cutoff year
Features ==
    [geom : {"Polygon"}, empty : {FALSE}, src : {NaN},
     year : {Cutoff - 2, Cutoff + 1},
     dn : {NaN}, idx : {0}, inside : BOOLEAN]

SeqsUpTo(S, n) == UNION {[1..k -> S] : k \in 0..n}

\* attribute columns a page may carry besides the construction year
FidColumns == {"fid", "FID", "fid_original", "FID_original", "FID_ORIGINAL"}
Suffixes   == {"_original", "_X"}

WfsStart ==
    /\ wfs_pc = "start"
    /\ wfs_data \in SeqsUpTo(Features, MaxHits)
    /\ wfs_page \in 1..MaxPage
    /\ wfs_markers = <<>>
    /\ wfs_requests = <<>>
    /\ wfs_mode = "w"
    /\ wfs_schema = NoSchema
    /\ wfs_renamed = EmptyMap
    /\ wfs_passed = <<>>
    /\ wfs_writes = <<>>

\* line 240: start_index at its default, and a service that returns the
\* slice it is asked for
WfsExactService ==
    /\ wfs_start = 0
    /\ wfs_exact = TRUE

\* any start_index, and a service free to return pages of its own length
WfsAnyService ==
    /\ wfs_start \in 0..MaxStart
    /\ wfs_exact \in BOOLEAN

\* the pages of any feature type, any suffix
WfsAnyColumns ==
    /\ wfs_cols \in {{"year"} \cup extra : extra \in SUBSET FidColumns}
    /\ wfs_suffix \in Suffixes

\* lines 232-247 of process_map.py: download_bag leaves fid_suffix at its
\* default; the building service's features carry no fid column
WfsBagColumns ==
    /\ wfs_cols = {"year"}
    /\ wfs_suffix = "_original"

WfsIdle ==
    /\ wfs_pc = "idle"
    /\ wfs_data = <<>>
    /\ wfs_page = 1
    /\ wfs_markers = <<>>
    /\ wfs_requests = <<>>
    /\ wfs_mode = "w"
    /\ wfs_schema = NoSchema
    /\ wfs_cols = {"year"}
    /\ wfs_suffix = "_original"
    /\ wfs_renamed = EmptyMap
    /\ wfs_start = 0
    /\ wfs_exact = TRUE
    /\ wfs_passed = <<>>
    /\ wfs_writes = <<>>

FsEmpty == fs = [p \in Paths |-> NoFile]

WfsNext ==
    \/ WfsGetHits
    \/ WfsPage
    \/ WfsReturn

(***************************************************************************)
(* The schema cache of one WFS200 client (downloader/wfs.py)               *)
(***************************************************************************)
Absent    == "absent"
TypeNames == {"BAG3D:lod12", "bgt:pand"}

\* what self._wfs_src.get_schema(typename) does: a schema (the service may
\* answer differently at different times), None, or an exception
SchemaOutcomes == {"schemaA", "schemaB", NoneValue, "raise"}

\* a cache test that never finds the entry
InCacheNever(cache, typename) == FALSE

\* line 98: typename in self._schema_cache.keys()
InCache(cache, typename) == cache[typename] # Absent

\* lines 97-102: fetch_schema, given what the remote request would answer
FetchSchema(cache, typename, outcome) ==
    IF InCache(cache, typename)
    THEN [cache |-> cache, requested |-> FALSE, raised |-> FALSE]
    ELSE IF outcome = "raise"
    THEN [cache |-> cache, requested |-> TRUE, raised |-> TRUE]
    ELSE [cache |-> [cache EXCEPT ![typename] = outcome],
          requested |-> TRUE, raised |-> FALSE]

\* the effect of one fetch_schema on the cache and the request log
SchApply(typename, outcome) ==
    LET res == FetchSchema(sch_cache, typename, outcome) IN
    /\ sch_cache' = res.cache
    /\ sch_log' = IF res.requested THEN Append(sch_log, <<typename, outcome>>)
                  ELSE sch_log

\* lines 97-102: fetch_schema called by the user
SchFetchSchema ==
    /\ sch_pc = "ready"
    /\ Len(sch_calls) < MaxCalls
    /\ \E typename \in TypeNames, outcome \in SchemaOutcomes :
          /\ SchApply(typename, outcome)
          /\ sch_calls' = Append(sch_calls, <<"fetch_schema", typename>>)
    /\ UNCHANGED <<sch_pc, sch_left>>
    /\ UNCHANGED notSch

\* lines 169-218: get_feature called by the user; line 189 reads the schema
\* through fetch_schema before the feature request
SchGetFeature ==
    /\ sch_pc = "ready"
    /\ Len(sch_calls) < MaxCalls
    /\ \E typename \in TypeNames, outcome \in SchemaOutcomes :
          /\ SchApply(typename, outcome)
          /\ sch_calls' = Append(sch_calls, <<"get_feature", typename>>)
    /\ UNCHANGED <<sch_pc, sch_left>>
    /\ UNCHANGED notSch

\* lines 246-259: stream_feature called by the user: get_hits and the page
\* markers; the schema is not touched before the first page
SchStreamFeature ==
    /\ sch_pc = "ready"
    /\ Len(sch_calls) < MaxCalls
    /\ \E typename \in TypeNames, pages \in 0..MaxPage :
          /\ sch_calls' = Append(sch_calls, <<"stream_feature", typename>>)
          /\ sch_left' = pages
          /\ sch_pc' = IF pages > 0 THEN "streaming" ELSE "ready"
    /\ UNCHANGED <<sch_cache, sch_log>>
    /\ UNCHANGED notSch

\* lines 260-279: one page of the running stream_feature: get_feature
SchStreamPage ==
    /\ sch_pc = "streaming"
    /\ \E outcome \in SchemaOutcomes :
          LET typename == sch_calls[Len(sch_calls)][2]
              res      == FetchSchema(sch_cache, typename, outcome)
          IN  /\ SchApply(typename, outcome)
              /\ sch_left' = IF res.raised THEN 0 ELSE sch_left - 1
              /\ sch_pc' = IF res.raised \/ sch_left = 1 THEN "ready" ELSE "streaming"
    /\ UNCHANGED sch_calls
    /\ UNCHANGED notSch

\* lines 64-69: a new client, self._schema_cache = dict()
SchStart ==
    /\ sch_pc = "ready"
    /\ sch_cache = [t \in TypeNames |-> Absent]
    /\ sch_log = <<>>
    /\ sch_calls = <<>>
    /\ sch_left = 0

SchIdle ==
    /\ sch_pc = "idle"
    /\ sch_cache = [t \in TypeNames |-> Absent]
    /\ sch_log = <<>>
    /\ sch_calls = <<>>
    /\ sch_left = 0

SchNext ==
    \/ SchFetchSchema
    \/ SchGetFeature
    \/ SchStreamFeature
    \/ SchStreamPage

(***************************************************************************)
(* WFS200.get_hits (downloader/wfs.py)                                     *)
(***************************************************************************)
\* the bodies a service may answer with: a hits document, an
\* ogc:ServiceExceptionReport with or without a ServiceException element,
\* or something that is not XML
Bodies == {"hits", "exception", "exception_bare", "not_xml"}

\* the numberMatched attribute of the root element, as text
Counts == {"missing", "unknown", "0", "3", " 12 "}

\* int(count): the integer, or no integer (TypeError for None, ValueError
\* for other text)
ParsesAsInt(count) == count \in {"0", "3", " 12 "}
IntOf(count) == CASE count = "0" -> 0 [] count = "3" -> 3 [] count = " 12 " -> 12

NoOutcome == [kind |-> "none", value |-> 0, text |-> ""]
Ended(kind, value, text) == [kind |-> kind, value |-> value, text |-> text]

\* numberMatched of the document root: only a hits document can carry one
CountOf(resp) == IF resp.body = "hits" THEN resp.count ELSE "missing"

\* lines 163-167: ElementTree.fromstring(data) stands outside the try, so a
\* body that is not XML leaves as a ParseError; int(count) is inside it
ParseCount(resp) ==
    IF resp.body = "not_xml" THEN Ended("ParseError", 0, "")
    ELSE IF ~ParsesAsInt(CountOf(resp)) THEN Ended("ValueError", 0, CountOf(resp))
    ELSE Ended("return", IntOf(CountOf(resp)), "")

\* lines 146-162: a body under 32000 bytes is searched for a service
\* exception; se.text on a report without that element is an AttributeError
ExceptionCheck(resp) ==
    IF resp.large \/ resp.body \in {"hits", "not_xml"} THEN NoOutcome
    ELSE IF resp.body = "exception" THEN Ended("ServiceException", 0, resp.text)
    ELSE Ended("AttributeError", 0, "")

\* lines 130-144: the request is sent and the length of the answer found
HitsOpenUrl ==
    /\ hits_pc = "start"
    /\ hits_read' = ~hits_resp.has_length
    /\ hits_pc' = "opened"
    /\ UNCHANGED <<hits_resp, hits_out>>
    /\ UNCHANGED notHits

\* lines 146-167
HitsParse ==
    /\ hits_pc = "opened"
    /\ hits_out' = IF ExceptionCheck(hits_resp) # NoOutcome
                   THEN ExceptionCheck(hits_resp)
                   ELSE ParseCount(hits_resp)
    /\ hits_read' = TRUE
    /\ hits_pc' = "done"
    /\ UNCHANGED hits_resp
    /\ UNCHANGED notHits

HitsStart ==
    /\ hits_pc = "start"
    /\ hits_resp \in [has_length : BOOLEAN, large : BOOLEAN, body : Bodies,
                      count : Counts, text : {"Unknown typename"}]
    /\ hits_read = FALSE
    /\ hits_out = NoOutcome

HitsIdle ==
    /\ hits_pc = "idle"
    /\ hits_resp = [has_length |-> FALSE, large |-> FALSE, body |-> "hits",
                    count |-> "0", text |-> "Unknown typename"]
    /\ hits_read = FALSE
    /\ hits_out = NoOutcome

HitsNext ==
    \/ HitsOpenUrl
    \/ HitsParse

(***************************************************************************)
(* bgt_convert (utils/converter.py)                                        *)
(*                                                                         *)
(* A schemaLocation attribute is a sequence of references; a reference is  *)
(* the sequence of its path segments, so that a whole-word replacement of  *)
(* a file name acts on one segment.                                        *)
(***************************************************************************)
StaleImgeo  == <<"imgeo.xsd">>
StaleSimple == <<"imgeo-simple-2.1-gml31.xsd">>
GmlBase     == <<"http://schemas.opengis.net/gml/3.1.1/base", "gml.xsd">>
Register    == "https://register.geostandaarden.nl/gmlapplicatieschema/imgeo/2.1.1"

\* lines 177-180: schema_urls, in the order of the dict
SchemaUrls ==
    << [old |-> "imgeo.xsd", new |-> <<Register, "imgeo.xsd">>],
       [old |-> "imgeo-simple-2.1-gml31.xsd", new |-> <<Register, "imgeo-simple.xsd">>] >>

RECURSIVE ReSub(_, _, _)
\* re.sub(rf"\b{old}\b", new, text) on one reference
ReSub(ref, old, new) ==
    IF ref = <<>> THEN <<>>
    ELSE (IF Head(ref) = old THEN new ELSE <<Head(ref)>>) \o ReSub(Tail(ref), old, new)

RECURSIVE MultiReplace(_, _)
\* lines 53-62: multi_replace, the phrases applied one after the other
MultiReplace(text, phrase_map) ==
    IF phrase_map = <<>> THEN text
    ELSE MultiReplace([i \in 1..Len(text) |->
                          ReSub(text[i], Head(phrase_map).old, Head(phrase_map).new)],
                      Tail(phrase_map))

\* lines 198-217: the schemaLocation after the fix, or as extracted
FixSchemaSource(schema, fix_schema_source) ==
    IF fix_schema_source THEN MultiReplace(schema, SchemaUrls) ELSE schema

\* the schemaLocation of DUMMY_BGT_GML (line 21)
DummySchema == <<StaleSimple, GmlBase>>

\* lines 271-287: gdal.VectorTranslate(skipFailures=...) under
\* gdal.UseExceptions(): without skipFailures the first feature that fails
\* ends the translation with an error
GdalVectorTranslate(feats, skip_failures) ==
    LET Good(f) == f # "bad" IN
    IF skip_failures THEN [raised |-> FALSE, feats |-> SelectSeq(feats, Good)]
    ELSE IF \E i \in 1..Len(feats) : feats[i] = "bad"
    THEN [raised |-> TRUE, feats |-> <<>>]
    ELSE [raised |-> FALSE, feats |-> feats]

\* line 284
SkipFailures == FALSE

NoMember == [name |-> "none", schema |-> <<>>, feats |-> <<>>]

\* lines 190-217: zfp.extract and, if asked for, the schema fix
CnvExtract ==
    /\ cnv_pc = "loop"
    /\ cnv_todo # <<>>
    /\ cnv_cur' = [Head(cnv_todo) EXCEPT
                      !.schema = FixSchemaSource(@, cnv_args.fix_schema_source)]
    /\ cnv_disk' = cnv_disk \cup {Head(cnv_todo).name}
    /\ cnv_todo' = Tail(cnv_todo)
    /\ cnv_pc' = "open"
    /\ UNCHANGED <<cnv_args, cnv_zip, cnv_map, cnv_opens, cnv_err>>
    /\ UNCHANGED notCnv

\* lines 219-241: the first gdal.OpenEx and the dummy written over a file
\* without layers
CnvOpen ==
    /\ cnv_pc = "open"
    /\ cnv_opens' = Append(cnv_opens, <<cnv_cur.name, cnv_cur.schema>>)
    /\ cnv_cur' = IF cnv_args.use_dummy /\ cnv_cur.feats = <<>>
                  THEN [cnv_cur EXCEPT !.schema = DummySchema, !.feats = <<"dummy">>]
                  ELSE cnv_cur
    /\ cnv_pc' = "translate"
    /\ UNCHANGED <<cnv_args, cnv_todo, cnv_disk, cnv_zip, cnv_map, cnv_err>>
    /\ UNCHANGED notCnv

\* lines 243-326: the second gdal.OpenEx, gdal.VectorTranslate,
\* convert_datetime and dst_map[layer_name] = dst_path
CnvTranslate ==
    /\ cnv_pc = "translate"
    /\ cnv_opens' = Append(cnv_opens, <<cnv_cur.name, cnv_cur.schema>>)
    /\ LET res == GdalVectorTranslate(cnv_cur.feats, SkipFailures) IN
       IF res.raised
       THEN /\ cnv_pc' = "raised"
            /\ cnv_err' = "translate"
            /\ UNCHANGED cnv_map
       ELSE /\ cnv_pc' = "clean"
            /\ cnv_map' = Append(cnv_map, <<cnv_cur.name, res.feats>>)
            /\ UNCHANGED cnv_err
    /\ UNCHANGED <<cnv_args, cnv_todo, cnv_cur, cnv_disk, cnv_zip>>
    /\ UNCHANGED notCnv

\* lines 328-332: src_path.unlink() and the .gfs next to it
CleanUp(disk, zip, name, clean_up) ==
    IF clean_up THEN [disk |-> disk \ {name}, zip |-> zip]
    ELSE [disk |-> disk, zip |-> zip]

CnvCleanUp ==
    /\ cnv_pc = "clean"
    /\ LET res == CleanUp(cnv_disk, cnv_zip, cnv_cur.name, cnv_args.clean_up) IN
       /\ cnv_disk' = res.disk
       /\ cnv_zip' = res.zip
    /\ cnv_pc' = "loop"
    /\ UNCHANGED <<cnv_args, cnv_todo, cnv_cur, cnv_map, cnv_opens, cnv_err>>
    /\ UNCHANGED notCnv

\* line 333: return dst_map
CnvReturn ==
    /\ cnv_pc = "loop"
    /\ cnv_todo = <<>>
    /\ cnv_pc' = "returned"
    /\ UNCHANGED <<cnv_args, cnv_todo, cnv_cur, cnv_disk, cnv_zip, cnv_map,
                   cnv_opens, cnv_err>>
    /\ UNCHANGED notCnv

SchemaLocations == {<<GmlBase>>, <<StaleImgeo>>, <<StaleSimple, GmlBase>>}

Members(name) ==
    [name : {name}, schema : SchemaLocations,
     feats : SeqsUpTo({"ok", "bad"}, MaxFeats)]

\* the archives: no member, one layer, two layers
Archives ==
    {<<>>} \cup {<<m>> : m \in Members("pand")}
           \cup {<<m, n>> : m \in Members("pand"), n \in Members("wegdeel")}

\* process_map.py lines 163-174: MapProcessor.convert passes
\* fix_schema_source=False; a direct caller may pass either value
CnvArgs ==
    [via : {"convert"}, fix_schema_source : {FALSE},
     clean_up : BOOLEAN, use_dummy : BOOLEAN]
    \cup
    [via : {"direct"}, fix_schema_source : BOOLEAN,
     clean_up : BOOLEAN, use_dummy : BOOLEAN]

CnvStart ==
    /\ cnv_pc = "loop"
    /\ cnv_args \in CnvArgs
    /\ cnv_todo \in Archives
    /\ cnv_cur = NoMember
    /\ cnv_disk = {}
    /\ cnv_zip = TRUE
    /\ cnv_map = <<>>
    /\ cnv_opens = <<>>
    /\ cnv_err = "none"

CnvIdle ==
    /\ cnv_pc = "idle"
    /\ cnv_args = [via |-> "direct", fix_schema_source |-> TRUE,
                   clean_up |-> TRUE, use_dummy |-> TRUE]
    /\ cnv_todo = <<>>
    /\ cnv_cur = NoMember
    /\ cnv_disk = {}
    /\ cnv_zip = FALSE
    /\ cnv_map = <<>>
    /\ cnv_opens = <<>>
    /\ cnv_err = "none"

CnvNext ==
    \/ CnvExtract
    \/ CnvOpen
    \/ CnvTranslate
    \/ CnvCleanUp
    \/ CnvReturn

(***************************************************************************)
(* MapProcessor.download_bag (process_map.py), one region                  *)
(***************************************************************************)
\* lines 249-264: vector_translate with clipSrc and PROMOTE_TO_MULTI: the
\* features inside the region polygon, as multi-polygons
VectorTranslate(file) ==
    LET Inside(r) == r.inside
        clipped   == SelectSeq(file.rows, Inside)
    IN  [file EXCEPT !.rows =
            [i \in 1..Len(clipped) |-> [clipped[i] EXCEPT !.geom = "MultiPolygon"]]]

\* alter_data with the statement
\*   DELETE FROM {layer} WHERE "oorspronkelijkbouwjaar" > 2022;
AlterData(file) ==
    LET Keep(r) == ~(r.year > Cutoff) IN [file EXCEPT !.rows = SelectSeq(@, Keep)]

\* lines 274-288: the arguments download_bag gives prepare_data
BagPrepareArgs ==
    [has_geom_types |-> TRUE, geom_types |-> {"MultiPolygon"},
     infer_datetime |-> TRUE, has_new_attr |-> TRUE, is_dict |-> FALSE,
     value |-> "81", value_map |-> EmptyMap, default_fill |-> "0",
     sort |-> FALSE, sort_asc |-> TRUE, sort_by |-> "year"]

\* lines 232-248 raising: stream_feature's exception leaves the generator
BagStreamRaised ==
    /\ bag_pc = "stream"
    /\ wfs_pc = "raised"
    /\ bag_pc' = "raised"
    /\ UNCHANGED <<bag_filter, bag_map, fs, wfsVars>>
    /\ UNCHANGED notBag

\* lines 249-264: bag_path is read and convert_path written
BagTranslate ==
    /\ bag_pc = "stream"
    /\ wfs_pc = "returned"
    /\ IF fs[PandPath].exists
       THEN /\ fs' = [fs EXCEPT ![ConvPath] = VectorTranslate(fs[PandPath])]
            /\ bag_pc' = "filter"
       ELSE /\ bag_pc' = "raised"      \* gdal.OpenEx on a missing file
            /\ UNCHANGED fs
    /\ UNCHANGED <<bag_filter, bag_map, wfsVars>>
    /\ UNCHANGED notBag

\* lines 266-271: alter_data(src_path=bag_path, ...)
BagFilter ==
    /\ bag_pc = "filter"
    /\ fs' = IF bag_filter
             THEN [fs EXCEPT ![PandPath] = AlterData(@)]
             ELSE fs
    /\ bag_pc' = "rename"
    /\ UNCHANGED <<bag_filter, bag_map, wfsVars>>
    /\ UNCHANGED notBag

\* line 273: bag_path = convert_path.rename(target=bag_path)
BagRename ==
    /\ bag_pc = "rename"
    /\ fs' = [fs EXCEPT ![PandPath] = fs[ConvPath], ![ConvPath] = NoFile]
    /\ bag_pc' = "prepare"
    /\ UNCHANGED <<bag_filter, bag_map, wfsVars>>
    /\ UNCHANGED notBag

\* lines 274-290: prepare_data in place, then layer_map["pand"] = bag_path
BagPrepare ==
    /\ bag_pc = "prepare"
    /\ LET r == PrepareData(fs[PandPath], BagPrepareArgs) IN
       IF r.raised # "none"
       THEN /\ bag_pc' = "raised"
            /\ UNCHANGED <<fs, bag_map>>
       ELSE /\ fs' = [fs EXCEPT ![PandPath] = r.layer]
            /\ bag_map' = PandPath
            /\ bag_pc' = "done"
    /\ UNCHANGED <<bag_filter, wfsVars>>
    /\ UNCHANGED notBag

BagStart ==
    /\ bag_pc = "stream"
    /\ bag_filter \in BOOLEAN
    /\ bag_map = NoneValue

BagIdle ==
    /\ bag_pc = "idle"
    /\ bag_filter = FALSE
    /\ bag_map = NoneValue

BagNext ==
    \/ BagStreamRaised
    \/ BagTranslate
    \/ BagFilter
    \/ BagRename
    \/ BagPrepare

(***************************************************************************)
(* prepare_data called on one layer                                        *)
(***************************************************************************)
Categories == {"a", "b", NaN}

PrepRows ==
    [geom : {"MultiPolygon", "Point"}, empty : {FALSE}, src : Categories,
     year : {Cutoff - 2, Cutoff + 1}, dn : {NaN},
     idx : {0}, inside : {TRUE}]

PrepLayers ==
    [exists : {TRUE}, crs : {BagCrs}, cols : {{"geometry", "src", "year"}},
     rows : SeqsUpTo(PrepRows, MaxRows)]

ValueMaps ==
    { [k \in {"a"} |-> "51"],
      [k \in {"a", "b"} |-> IF k = "a" THEN "51" ELSE NaN] }

PrepArgs ==
    [has_geom_types : {TRUE}, geom_types : {{"MultiPolygon"}, {"Polygon", "Point"}},
     infer_datetime : {FALSE}, has_new_attr : {TRUE}, is_dict : {TRUE},
     value : {"81"}, value_map : ValueMaps, default_fill : {"0", NaN},
     sort : BOOLEAN, sort_asc : {TRUE}, sort_by : {"year"}]
    \cup
    [has_geom_types : BOOLEAN, geom_types : {{"MultiPolygon"}, {"Point"}},
     infer_datetime : BOOLEAN, has_new_attr : BOOLEAN, is_dict : {FALSE},
     value : {"81", "0"}, value_map : {EmptyMap}, default_fill : {"0"},
     sort : {FALSE}, sort_asc : {TRUE}, sort_by : {"year"}]

NoCall == [raised |-> "none", layer |-> NoFile]

\* prepare_data(src_path, ...) on a file of one layer, written in place
PrepRun ==
    /\ prep_pc = "start"
    /\ prep_out' = PrepareData(prep_in.layer, prep_in.args)
    /\ prep_pc' = IF prep_out'.raised = "none" THEN "done" ELSE "raised"
    /\ UNCHANGED prep_in
    /\ UNCHANGED notPrep

PrepStart ==
    /\ prep_pc = "start"
    /\ prep_in \in [layer : PrepLayers, args : PrepArgs]
    /\ prep_out = NoCall

PrepIdle ==
    /\ prep_pc = "idle"
    /\ prep_in = [layer |-> NoFile, args |-> BagPrepareArgs]
    /\ prep_out = NoCall

PrepNext == PrepRun

(***************************************************************************)
(* MapProcessor.prepare (process_map.py), the layers of one region         *)
(*                                                                         *)
(* A row of a converted layer carries, besides the fields of the rows      *)
(* above, h: its relatieveHoogteligging; src is its bgt-functie.           *)
(***************************************************************************)
\* lines 59-101: self.layer_map, two of its entries
LayerTable ==
    [name \in {"wegdeel", "waterdeel"} |->
        IF name = "wegdeel"
        THEN [infer |-> TRUE, value |-> "0", alter |-> TRUE,
              value_map |-> [k \in {"transitie", "voetpad"} |->
                                IF k = "transitie" THEN "82" ELSE "60"]]
        ELSE [infer |-> FALSE, value |-> "11", alter |-> FALSE,
              value_map |-> EmptyMap]]

\* line 38: nodata_value
NodataValue == "0"

\* lines 194-197: self.layer_map.get(layer_name, {"infer": None, "value": nodata})
Filler(layer_name) ==
    IF layer_name \in DOMAIN LayerTable THEN LayerTable[layer_name]
    ELSE [infer |-> FALSE, value |-> NodataValue, alter |-> FALSE,
          value_map |-> EmptyMap]

\* line 198: self.layer_map[layer_name] raises KeyError for a name the table
\* does not hold
InTable(layer_name) == layer_name \in DOMAIN LayerTable

\* a table none of whose entries has an alteration
HasAlterNever(layer_name) == FALSE

\* line 198: self.layer_map[layer_name].get("alter", None)
HasAlter(layer_name) == LayerTable[layer_name].alter

\* lines 83-92: the UPDATE statement on one row.  A row whose bgt-functie
\* is NULL gets NULL; any other row gets the text of its bgt-functie, which
\* the integer column gives back as text_as.
AlterRow(r, text_as) ==
    [r EXCEPT !.h = IF r.src = "transitie" THEN 0 - 1
                    ELSE IF r.src = NaN THEN NoHeight
                    ELSE text_as]

\* filter.py lines 16-41: alter_data executes the statement on the file
MpAlterData(file, text_as) ==
    [file EXCEPT !.rows = [i \in 1..Len(file.rows) |-> AlterRow(file.rows[i], text_as)]]

\* lines 204-216: the arguments prepare() gives prepare_data
MpPrepareArgs(layer_name) ==
    LET filler == Filler(layer_name) IN
    [has_geom_types |-> TRUE, geom_types |-> {"MultiPolygon"},
     infer_datetime |-> FALSE, has_new_attr |-> TRUE, is_dict |-> filler.infer,
     value |-> filler.value, value_map |-> filler.value_map,
     default_fill |-> NodataValue,
     sort |-> TRUE, sort_asc |-> TRUE, sort_by |-> "relatieveHoogteligging"]

NoItem == <<"none", NoFile>>

\* lines 193-203: the next layer of the region, altered when its entry says so
MpAlter ==
    /\ mp_pc = "loop"
    /\ mp_todo # <<>>
    /\ LET layer_name == Head(mp_todo)[1]
           layer_path == Head(mp_todo)[2]
       IN  IF ~InTable(layer_name)
           THEN /\ mp_pc' = "raised"       \* KeyError
                /\ UNCHANGED <<mp_todo, mp_cur, mp_log>>
           ELSE /\ mp_pc' = "prepare"
                /\ mp_todo' = Tail(mp_todo)
                /\ IF HasAlter(layer_name)
                   THEN \E text_as \in {0, NoHeight} :
                        /\ mp_cur' = <<layer_name, MpAlterData(layer_path, text_as)>>
                        /\ mp_log' = Append(mp_log, <<layer_name, "alter">>)
                   ELSE /\ mp_cur' = <<layer_name, layer_path>>
                        /\ UNCHANGED mp_log
    /\ UNCHANGED <<mp_in, mp_dst>>
    /\ UNCHANGED notMp

\* lines 204-217: prepare_data on the layer, in place
MpPrepareData ==
    /\ mp_pc = "prepare"
    /\ LET r == PrepareData(mp_cur[2], MpPrepareArgs(mp_cur[1])) IN
       IF r.raised # "none"
       THEN /\ mp_pc' = "raised"
            /\ UNCHANGED <<mp_dst, mp_log>>
       ELSE /\ mp_pc' = "loop"
            /\ mp_dst' = Append(mp_dst, <<mp_cur[1], r.layer>>)
            /\ mp_log' = Append(mp_log, <<mp_cur[1], "prepare">>)
    /\ UNCHANGED <<mp_in, mp_todo, mp_cur>>
    /\ UNCHANGED notMp

\* lines 218-223: the region's work item is yielded
MpYield ==
    /\ mp_pc = "loop"
    /\ mp_todo = <<>>
    /\ mp_pc' = "yielded"
    /\ UNCHANGED <<mp_in, mp_todo, mp_cur, mp_dst, mp_log>>
    /\ UNCHANGED notMp

\* the rows of a converted road layer
RoadRows ==
    [geom : {"MultiPolygon", "Point"}, empty : {FALSE}, src : {"transitie", "voetpad"},
     year : {NoYear}, dn : {NaN}, idx : {0}, inside : {TRUE}, h : {0, 1}]

RoadLayers ==
    [exists : {TRUE}, crs : {BagCrs}, cols : {{"geometry", "src", "h"}},
     rows : SeqsUpTo(RoadRows, MaxRows)]

\* a converted layer of a type that has a constant class code
PlainLayers ==
    [exists : {TRUE}, crs : {BagCrs}, cols : {{"geometry", "h"}},
     rows : SeqsUpTo([geom : {"MultiPolygon"}, empty : {FALSE}, src : {NaN},
                      year : {NoYear}, dn : {NaN}, idx : {0}, inside : {TRUE},
                      h : {0, 1}], 1)]

\* the layer names bgt_convert may hand over: two of the table, and one
\* feature type of the provider that the table does not hold
OtherNames == {"waterdeel", "scheiding"}

\* kwargs["layer_map"] of one region, in the order of its items
RegionLayerMaps ==
    {<<<<"wegdeel", w>>>> : w \in RoadLayers}
    \cup {<<<<n, p>>>> : n \in OtherNames, p \in PlainLayers}
    \cup {<<<<"wegdeel", w>>, <<n, p>>>> : w \in RoadLayers, n \in OtherNames, p \in PlainLayers}
    \cup {<<<<n, p>>, <<"wegdeel", w>>>> : w \in RoadLayers, n \in OtherNames, p \in PlainLayers}

MpStart ==
    /\ mp_pc = "loop"
    /\ mp_in \in RegionLayerMaps
    /\ mp_todo = mp_in
    /\ mp_cur = NoItem
    /\ mp_dst = <<>>
    /\ mp_log = <<>>

MpIdle ==
    /\ mp_pc = "idle"
    /\ mp_in = <<>>
    /\ mp_todo = <<>>
    /\ mp_cur = NoItem
    /\ mp_dst = <<>>
    /\ mp_log = <<>>

MpNext ==
    \/ MpAlter
    \/ MpPrepareData
    \/ MpYield

(***************************************************************************)
(* MapProcessor.process (process_map.py): the chain of generators          *)
(*   list(download_bag(prepare(convert(download()))))                      *)
(* A generator runs only when the next one asks it for an item, so one     *)
(* region goes through every stage before the next feature is read.        *)
(***************************************************************************)
Stages == <<"download", "convert", "prepare", "bag">>

\* a pipeline whose download stage is run to its end before anything is
\* converted, as list(self.download()) would
ConsumerEager(stage, pand2bag) ==
    CASE stage = "download" -> "download"
      [] stage = "convert"  -> "prepare"
      [] stage = "prepare"  -> IF pand2bag THEN "bag" ELSE "collect"
      [] stage = "bag"      -> "collect"

\* lines 292-298: the generator that consumes the items `stage` yields
Consumer(stage, pand2bag) ==
    CASE stage = "download" -> "convert"
      [] stage = "convert"  -> "prepare"
      [] stage = "prepare"  -> IF pand2bag THEN "bag" ELSE "collect"
      [] stage = "bag"      -> "collect"

\* a pipeline that swallows the exception of a stage
AfterStageSwallow(stage, outcome, pand2bag) == Consumer(stage, pand2bag)

\* where control goes when a stage body ends: an exception leaves every
\* generator and list(); a yield resumes the consumer
AfterStage(stage, outcome, pand2bag) ==
    IF outcome = "raise" THEN "raised" ELSE Consumer(stage, pand2bag)

\* what a stage body can do: download() can also return without having
\* written the archive (BgtAfterLoop with a status that is no error class)
Outcomes(stage) ==
    IF stage = "download" THEN {"ok", "no_file", "raise"} ELSE {"ok", "raise"}

\* lines 127-129: feature_name = attr_table.get(self.roi_attr, feature['id'])
\* names the archive, and the archive names the working directory (line 156)
FeatureName(feature) ==
    IF feature.attr = NoneValue THEN ToString(feature.id) ELSE feature.attr

NoFiles == [download |-> 0, convert |-> 0, prepare |-> 0, bag |-> 0]

\* the files a stage writes for a region: the archive, the converted layers,
\* the harmonized layers, the building layer; a stage that does not end well
\* is taken to have written nothing
StageWrites(files, name, stage, region, outcome) ==
    IF outcome = "ok"
    THEN [files EXCEPT ![name] = [@ EXCEPT ![stage] = region]]
    ELSE files

\* lines 115-149: download() resumed: the next polygon feature of the source
ProcDownload ==
    /\ proc_pc = "download"
    /\ IF proc_roi = <<>>
       THEN \* the source is exhausted: every generator ends, list() returns
            /\ proc_pc' = "returned"
            /\ UNCHANGED <<proc_roi, proc_cur, proc_log, proc_zip, proc_files>>
       ELSE LET feature == Head(proc_roi) IN
            /\ proc_roi' = Tail(proc_roi)
            /\ IF feature.geom # "Polygon"
               THEN UNCHANGED <<proc_pc, proc_cur, proc_log, proc_zip, proc_files>>
               ELSE \E outcome \in Outcomes("download") :
                    /\ proc_cur' = feature.id
                    /\ proc_zip' = [proc_zip EXCEPT ![feature.id] = FeatureName(feature)]
                    /\ proc_files' = StageWrites(proc_files, FeatureName(feature),
                                                 "download", feature.id, outcome)
                    /\ proc_log' = Append(proc_log, <<feature.id, "download", outcome>>)
                    /\ proc_pc' = AfterStage("download", outcome, proc_bag)
    /\ UNCHANGED <<proc_bag, proc_out, proc_snap>>
    /\ UNCHANGED notProc

\* the body of convert(), prepare() or download_bag() for the item it got
ProcStage(stage) ==
    \E outcome \in Outcomes(stage) :
       /\ proc_log' = Append(proc_log, <<proc_cur, stage, outcome>>)
       /\ proc_files' = StageWrites(proc_files, proc_zip[proc_cur], stage, proc_cur, outcome)
       /\ proc_pc' = AfterStage(stage, outcome, proc_bag)

\* lines 155-180
ProcConvert ==
    /\ proc_pc = "convert"
    /\ ProcStage("convert")
    /\ UNCHANGED <<proc_roi, proc_cur, proc_bag, proc_out, proc_zip, proc_snap>>
    /\ UNCHANGED notProc

\* lines 183-223
ProcPrepare ==
    /\ proc_pc = "prepare"
    /\ ProcStage("prepare")
    /\ UNCHANGED <<proc_roi, proc_cur, proc_bag, proc_out, proc_zip, proc_snap>>
    /\ UNCHANGED notProc

\* lines 229-290
ProcDownloadBag ==
    /\ proc_pc = "bag"
    /\ ProcStage("bag")
    /\ UNCHANGED <<proc_roi, proc_cur, proc_bag, proc_out, proc_zip, proc_snap>>
    /\ UNCHANGED notProc

\* lines 294-298: list() stores the item and asks for the next one
ProcCollect ==
    /\ proc_pc = "collect"
    /\ proc_out' = Append(proc_out, proc_cur)
    /\ proc_snap' = Append(proc_snap, proc_files[proc_zip[proc_cur]])
    /\ proc_pc' = "download"
    /\ UNCHANGED <<proc_roi, proc_cur, proc_log, proc_bag, proc_zip, proc_files>>
    /\ UNCHANGED notProc

\* values of the roi_attr property of a feature; NoneValue when the
\* feature has no such property
RoiAttrs == {"north", "south", NoneValue}
FeatureNames == {"north", "south"} \cup {ToString(i) : i \in 1..MaxRegions}

ProcStart ==
    /\ proc_pc = "download"
    /\ proc_roi \in UNION { { [i \in 1..k |-> [id |-> i, geom |-> g[i], attr |-> a[i]]] :
                                g \in [1..k -> {"Polygon", "Point"}],
                                a \in [1..k -> RoiAttrs] } :
                             k \in 0..MaxRegions }
    /\ proc_cur = 0
    /\ proc_log = <<>>
    /\ proc_bag \in BOOLEAN
    /\ proc_out = <<>>
    /\ proc_zip = [i \in 1..MaxRegions |-> "none"]
    /\ proc_files = [n \in FeatureNames |-> NoFiles]
    /\ proc_snap = <<>>

ProcIdle ==
    /\ proc_pc = "idle"
    /\ proc_roi = <<>>
    /\ proc_cur = 0
    /\ proc_log = <<>>
    /\ proc_bag = FALSE
    /\ proc_out = <<>>
    /\ proc_zip = [i \in 1..MaxRegions |-> "none"]
    /\ proc_files = [n \in FeatureNames |-> NoFiles]
    /\ proc_snap = <<>>

ProcNext ==
    \/ ProcDownload
    \/ ProcConvert
    \/ ProcPrepare
    \/ ProcDownloadBag
    \/ ProcCollect

(***************************************************************************)
(* rasterize_layers (processors/rasterizer.py)                             *)
(*                                                                         *)
(* The grid of the reference image is the unit grid: dst.transform maps    *)
(* pixel (r, c) to the cell (r, c).  A shape is a rectangle of cells with  *)
(* the value of its class attribute; a layer is a sequence of shapes.      *)
(* An array is band -> row -> column -> value, all counted from 0.         *)
(***************************************************************************)
Fill == 0

\* every mode given a single band
BandCountSingle(mode, layers) == 1

\* str.lower() on the modes of the model
LowerMode(mode) ==
    CASE mode = "STACK" -> "stack"
      [] mode = "Burn"  -> "burn"
      [] OTHER          -> mode

\* a call that takes any mode
KnownModeAny(mode) == TRUE

\* lines 81-86: the modes that do not reach `raise ValueError`
KnownMode(mode) == LowerMode(mode) \in {"stack", "burn"}

\* lines 81-86: the number of bands
BandCount(mode, layers) == IF LowerMode(mode) = "stack" THEN Len(layers) ELSE 1

\* np.full(shape=(count, height, width), fill_value=fill)
Full(count, height, width, fill) ==
    [b \in 0..(count - 1) |-> [r \in 0..(height - 1) |-> [c \in 0..(width - 1) |-> fill]]]

Covers(shape, cell) ==
    /\ shape.r0 <= cell[1] /\ cell[1] <= shape.r1
    /\ shape.c0 <= cell[2] /\ cell[2] <= shape.c1

\* a tile window that is not clipped to the raster
IntersectionUnclipped(window, raster) == window

\* Window(row_off, col_off, height, width).intersection(raster_window)
Intersection(window, raster) ==
    LET r0 == IF window.row_off > raster.row_off THEN window.row_off ELSE raster.row_off
        c0 == IF window.col_off > raster.col_off THEN window.col_off ELSE raster.col_off
        r1 == Min(window.row_off + window.height, raster.row_off + raster.height)
        c1 == Min(window.col_off + window.width, raster.col_off + raster.width)
    IN  [row_off |-> r0, col_off |-> c0, height |-> r1 - r0, width |-> c1 - c0]

\* a tile rasterized with the transform of the whole image
WindowTransformGlobal(window, r, c) == <<r, c>>

\* rio.windows.transform(window, dst.transform): the cell under pixel (r, c)
\* of the window
WindowTransform(window, r, c) == <<window.row_off + r, window.col_off + c>>

\* the values an array of the dtype can hold
DtypeRange(dtype) == IF dtype = "uint8" THEN 0..255 ELSE (0 - 32768)..32767

\* ndarray.astype(dtype) on one integral value: the low bits are kept
AsType(value, dtype) ==
    IF dtype = "uint8" THEN value % 256
    ELSE ((value + 32768) % 65536) - 32768

\* lines 94-102: whether g.astype(dtype) leaves a RuntimeWarning in `w`.
\* An integer column is cast without any warning; a float column warns
\* ("invalid value encountered in cast") on a value outside the dtype, in
\* the numpy releases that report it (numpy_warns).
AstypeWarns(layers, column, dtype, numpy_warns) ==
    /\ column = "float64"
    /\ numpy_warns
    /\ \E i \in 1..Len(layers) : \E k \in 1..Len(layers[i]) :
          layers[i][k].value \notin DtypeRange(dtype)

\* a cast check that lets every value through
CanCastDtypeAlways(shapes, dtype) == TRUE

\* lines 113-123 and 147-158: rasterize(..., out=, dtype=) rejects shape
\* values that do not survive the cast to the dtype (ValueError)
CanCastDtype(shapes, dtype) ==
    \A k \in 1..Len(shapes) : AsType(shapes[k].value, dtype) = shapes[k].value

\* the shapes with their values as the band's dtype stores them
CastShapes(shapes, dtype) ==
    [k \in 1..Len(shapes) |-> [shapes[k] EXCEPT !.value = AsType(shapes[k].value, dtype)]]

\* one shape burnt into a band of the window
Burn(shape, band, window, merge_alg) ==
    [r \in 0..(window.height - 1) |-> [c \in 0..(window.width - 1) |->
        IF Covers(shape, WindowTransform(window, r, c))
        THEN IF merge_alg = "replace" THEN shape.value ELSE band[r][c] + shape.value
        ELSE band[r][c]]]

RECURSIVE Rasterize(_, _, _, _)
\* rasterio.features.rasterize(shapes, out_shape, transform, out, merge_alg):
\* the shapes burnt into `out` in their order
Rasterize(shapes, out, window, merge_alg) ==
    IF shapes = <<>> THEN out
    ELSE Rasterize(Tail(shapes), Burn(Head(shapes), out, window, merge_alg),
                   window, merge_alg)

RECURSIVE RasterizeAll(_, _, _, _, _, _, _)
\* lines 111-123 and 145-158: for idx, gdf in enumerate(gdf_list), from idx on
RasterizeAll(layers, idx, arr, count, window, merge_alg, dtype) ==
    IF idx >= Len(layers) THEN arr
    ELSE LET gdf  == layers[idx + 1]
             band == idx % count
             next == IF Len(gdf) > 0
                     THEN [arr EXCEPT ![band] = Rasterize(CastShapes(gdf, dtype), arr[band],
                                                          window, merge_alg)]
                     ELSE arr
         IN  RasterizeAll(layers, idx + 1, next, count, window, merge_alg, dtype)

\* whether some rasterize call of the loop over gdf_list raises
RasterizeRaises(layers, dtype) ==
    \E i \in 1..Len(layers) : Len(layers[i]) > 0 /\ ~CanCastDtype(layers[i], dtype)

\* lines 70-75
RasterWindow(in) ==
    [row_off |-> 0, col_off |-> 0, height |-> in.height, width |-> in.width]

\* lines 106-124: the array the whole-grid branch writes
WholeGrid(in) ==
    LET count == BandCount(in.mode, in.layers) IN
    RasterizeAll(in.layers, 0, Full(count, in.height, in.width, Fill), count,
                 RasterWindow(in), in.merge_alg, in.dtype)

\* lines 126-129: product(range(0, height, th), range(0, width, tw))
TileOffsets(height, width, th, tw) ==
    LET rows == Range(0, height, th)
        cols == Range(0, width, tw)
    IN  [k \in 1..(Len(rows) * Len(cols)) |->
            <<rows[((k - 1) \div Len(cols)) + 1], cols[((k - 1) % Len(cols)) + 1]>>]

\* lines 130-135
TileWindow(in, rf, cf) ==
    Intersection([row_off |-> rf, col_off |-> cf, height |-> in.th, width |-> in.tw],
                 RasterWindow(in))

\* lines 140-158: the array rasterized for one tile
TileArray(in, window) ==
    LET count == BandCount(in.mode, in.layers) IN
    RasterizeAll(in.layers, 0, Full(count, window.height, window.width, Fill), count,
                 window, in.merge_alg, in.dtype)

\* line 159: dst.write(arr=arr, window=tile_window)
WriteWindow(dst, arr, window) ==
    [b \in DOMAIN dst |-> [r \in DOMAIN dst[b] |-> [c \in DOMAIN dst[b][r] |->
        IF /\ r >= window.row_off /\ r < window.row_off + window.height
           /\ c >= window.col_off /\ c < window.col_off + window.width
        THEN arr[b][r - window.row_off][c - window.col_off]
        ELSE dst[b][r][c]]]]

\* lines 65-104: the grid is read and the destination opened for writing
RstOpen ==
    /\ rst_pc = "start"
    /\ \E numpy_warns \in BOOLEAN :
          IF ~KnownMode(rst_in.mode)
          THEN \* line 86: raise ValueError(f"Unknown mode: {mode}")
               /\ rst_pc' = "raised"
               /\ UNCHANGED <<rst_tiles, rst_dst, rst_disk>>
          ELSE IF AstypeWarns(rst_in.layers, rst_in.column, rst_in.dtype, numpy_warns)
          THEN \* line 102: raise ValueError(warning.message)
               /\ rst_pc' = "raised"
               /\ UNCHANGED <<rst_tiles, rst_dst, rst_disk>>
          ELSE /\ rst_disk' = "new"   \* line 104: rio.open(dst_image, mode='w')
               /\ rst_dst' = Full(BandCount(rst_in.mode, rst_in.layers),
                                  rst_in.height, rst_in.width, Fill)
               /\ IF rst_in.tiled
                  THEN /\ rst_pc' = "tiles"
                       /\ rst_tiles' = TileOffsets(rst_in.height, rst_in.width,
                                                   rst_in.th, rst_in.tw)
                  ELSE /\ rst_pc' = "whole"
                       /\ UNCHANGED rst_tiles
    /\ UNCHANGED <<rst_in, rst_wins>>
    /\ UNCHANGED notRst

\* lines 105-124: tile_size is None
RstWhole ==
    /\ rst_pc = "whole"
    /\ IF RasterizeRaises(rst_in.layers, rst_in.dtype)
       THEN /\ rst_pc' = "raised"
            /\ UNCHANGED <<rst_dst, rst_wins>>
       ELSE /\ rst_dst' = WholeGrid(rst_in)
            /\ rst_wins' = Append(rst_wins, RasterWindow(rst_in))
            /\ rst_pc' = "done"
    /\ UNCHANGED <<rst_in, rst_tiles, rst_disk>>
    /\ UNCHANGED notRst

\* lines 126-159: one tile
RstTile ==
    /\ rst_pc = "tiles"
    /\ rst_tiles # <<>>
    /\ IF RasterizeRaises(rst_in.layers, rst_in.dtype)
       THEN /\ rst_pc' = "raised"
            /\ UNCHANGED <<rst_dst, rst_tiles, rst_wins>>
       ELSE /\ LET window == TileWindow(rst_in, Head(rst_tiles)[1], Head(rst_tiles)[2]) IN
               /\ rst_dst' = WriteWindow(rst_dst, TileArray(rst_in, window), window)
               /\ rst_wins' = Append(rst_wins, window)
            /\ rst_tiles' = Tail(rst_tiles)
            /\ UNCHANGED rst_pc
    /\ UNCHANGED <<rst_in, rst_disk>>
    /\ UNCHANGED notRst

\* lines 160-174: the tile loop has ended, the image is closed
RstClose ==
    /\ rst_pc = "tiles"
    /\ rst_tiles = <<>>
    /\ rst_pc' = "done"
    /\ UNCHANGED <<rst_in, rst_tiles, rst_dst, rst_wins, rst_disk>>
    /\ UNCHANGED notRst

ShapeA == [r0 |-> 0, r1 |-> 1, c0 |-> 1, c1 |-> MaxDim, value |-> 5]
ShapeB == [r0 |-> 1, r1 |-> MaxDim, c0 |-> 0, c1 |-> 1, value |-> 7]
\* a class value above the largest uint8
ShapeC == [r0 |-> 0, r1 |-> 0, c0 |-> 0, c1 |-> 0, value |-> 300]

LayerCatalog == {<<>>, <<ShapeA>>, <<ShapeB>>, <<ShapeB, ShapeA>>, <<ShapeC>>}

Dtypes == {"uint8", "int16"}
Columns == {"int64", "float64"}

\* modes as callers may spell them, one of them unknown
Modes == {"burn", "stack", "Burn", "STACK", "merge"}

RstInputs ==
    [height : 1..MaxDim, width : 1..MaxDim, tiled : {TRUE},
     th : 1..MaxDim, tw : 1..MaxDim, mode : {"burn", "stack"},
     merge_alg : {"replace", "add"}, dtype : Dtypes, column : Columns,
     layers : [1..1 -> LayerCatalog] \cup [1..2 -> LayerCatalog],
     existing : {FALSE}]
    \cup
    [height : 1..MaxDim, width : 1..MaxDim, tiled : {FALSE},
     th : {1}, tw : {1}, mode : {"burn", "stack"},
     merge_alg : {"replace", "add"}, dtype : Dtypes, column : Columns,
     layers : [1..1 -> LayerCatalog] \cup [1..2 -> LayerCatalog],
     existing : {FALSE}]
    \cup
    \* calls in any spelling of the mode, over a destination that may exist
    [height : {MaxDim}, width : {MaxDim}, tiled : BOOLEAN,
     th : {2}, tw : {2}, mode : Modes,
     merge_alg : {"replace"}, dtype : Dtypes, column : {"int64"},
     layers : [1..2 -> LayerCatalog],
     existing : BOOLEAN]

RstStart ==
    /\ rst_pc = "start"
    /\ rst_in \in RstInputs
    /\ rst_tiles = <<>>
    /\ rst_dst = <<>>
    /\ rst_wins = <<>>
    /\ rst_disk = IF rst_in.existing THEN "old" ELSE "absent"

RstIdle ==
    /\ rst_pc = "idle"
    /\ rst_in = [height |-> 1, width |-> 1, tiled |-> FALSE, th |-> 1, tw |-> 1,
                 mode |-> "burn", merge_alg |-> "replace", dtype |-> "int16",
                 column |-> "int64", layers |-> <<>>, existing |-> FALSE]
    /\ rst_tiles = <<>>
    /\ rst_dst = <<>>
    /\ rst_wins = <<>>
    /\ rst_disk = "absent"

RstNext ==
    \/ RstOpen
    \/ RstWhole
    \/ RstTile
    \/ RstClose

(***************************************************************************)
(* Specifications: one per component, the others at rest.                  *)
(***************************************************************************)
InitBGT  == BgtStart /\ WfsIdle /\ SchIdle /\ HitsIdle /\ CnvIdle /\ FsEmpty /\ BagIdle /\ PrepIdle /\ ProcIdle /\ RstIdle /\ MpIdle
SpecBGT  == InitBGT /\ [][BgtNext]_vars

\* download() runs in one thread that is never suspended for good: a step
\* that can be taken is taken
FairBGT     == WF_vars(BgtNext)
SpecBGTLive == SpecBGT /\ FairBGT

InitWFS  == BgtIdle /\ WfsStart /\ WfsAnyColumns /\ WfsExactService /\ SchIdle /\ HitsIdle /\ CnvIdle /\ FsEmpty /\ BagIdle /\ PrepIdle /\ ProcIdle /\ RstIdle /\ MpIdle
SpecWFS  == InitWFS /\ [][WfsNext]_vars

InitWFSAny == BgtIdle /\ WfsStart /\ WfsBagColumns /\ WfsAnyService /\ SchIdle /\ HitsIdle /\ CnvIdle /\ FsEmpty /\ BagIdle /\ PrepIdle /\ ProcIdle /\ RstIdle /\ MpIdle
SpecWFSAny == InitWFSAny /\ [][WfsNext]_vars

InitSch  == BgtIdle /\ WfsIdle /\ SchStart /\ HitsIdle /\ CnvIdle /\ FsEmpty /\ BagIdle /\ PrepIdle /\ ProcIdle /\ RstIdle /\ MpIdle
SpecSch  == InitSch /\ [][SchNext]_vars

InitCnv  == BgtIdle /\ WfsIdle /\ SchIdle /\ HitsIdle /\ CnvStart /\ FsEmpty /\ BagIdle /\ PrepIdle /\ ProcIdle /\ RstIdle /\ MpIdle
SpecCnv  == InitCnv /\ [][CnvNext]_vars

InitHits == BgtIdle /\ WfsIdle /\ SchIdle /\ HitsStart /\ CnvIdle /\ FsEmpty /\ BagIdle /\ PrepIdle /\ ProcIdle /\ RstIdle /\ MpIdle
SpecHits == InitHits /\ [][HitsNext]_vars

InitBag  == BgtIdle /\ WfsStart /\ WfsBagColumns /\ WfsExactService /\ SchIdle /\ HitsIdle /\ CnvIdle /\ FsEmpty /\ BagStart /\ PrepIdle /\ ProcIdle /\ RstIdle /\ MpIdle
NextBag  == WfsNext \/ BagNext
SpecBag  == InitBag /\ [][NextBag]_vars

InitPrep == BgtIdle /\ WfsIdle /\ SchIdle /\ HitsIdle /\ CnvIdle /\ FsEmpty /\ BagIdle /\ PrepStart /\ ProcIdle /\ RstIdle /\ MpIdle
SpecPrep == InitPrep /\ [][PrepNext]_vars

InitProc == BgtIdle /\ WfsIdle /\ SchIdle /\ HitsIdle /\ CnvIdle /\ FsEmpty /\ BagIdle /\ PrepIdle /\ ProcStart /\ RstIdle /\ MpIdle
SpecProc == InitProc /\ [][ProcNext]_vars

InitMp   == BgtIdle /\ WfsIdle /\ SchIdle /\ HitsIdle /\ CnvIdle /\ FsEmpty /\ BagIdle /\ PrepIdle /\ ProcIdle /\ RstIdle /\ MpStart
SpecMp   == InitMp /\ [][MpNext]_vars

InitRst  == BgtIdle /\ WfsIdle /\ SchIdle /\ HitsIdle /\ CnvIdle /\ FsEmpty /\ BagIdle /\ PrepIdle /\ ProcIdle /\ RstStart /\ MpIdle
SpecRst  == InitRst /\ [][RstNext]_vars

(***************************************************************************)
(* Properties                                                              *)
(***************************************************************************)
Last(seq) == seq[Len(seq)]

\* C1: download opens and writes the destination only after a poll response
\* with status 201; while every response seen so far has status 200 the
\* destination is neither opened nor written.
C1_WriteOnlyAfter201 ==
    /\ bgt_dst.opened => (bgt_seen # <<>> /\ Last(bgt_seen) = 201)
    /\ (\A i \in 1..Len(bgt_seen) : bgt_seen[i] = 200)
          => (~bgt_dst.opened /\ bgt_dst.chunks = 0)

\* C1 witness: progress 200, 200, 200 then 201, and a chunk has been written
C1_Witness ==
    /\ bgt_seen = <<200, 200, 200, 201>>
    /\ bgt_dst.opened
    /\ bgt_dst.chunks > 0

\* C2: when polling ends with a status that is neither 200 nor 201, download
\* raises; it never returns normally without having written the destination.
C2_OtherStatusRaises ==
    bgt_pc = "returned" => (bgt_dst.opened /\ Last(bgt_seen) = 201)

\* C3: fetch never returns without a handle: a response that is not a 202
\* with a JSON body makes it fail with an error.
C3_FetchReturnsHandle ==
    bgt_pc = "fetched" => bgt_meta = "handle"

CeilDiv(n, d) == (n + d - 1) \div d

\* C4: stream_feature over N hits with page size P issues exactly ceil(N/P)
\* page requests, at start indices 0, P, 2P, ..., and returns only after
\* having written N rows; a failed page fetch ends the call with an error.
C4_Pagination ==
    LET N == Len(wfs_data)
        P == wfs_page
    IN  /\ wfs_pc = "returned" =>
              /\ Len(wfs_requests) = CeilDiv(N, P)
              /\ Len(fs[PandPath].rows) = N
              /\ fs[PandPath].exists <=> N > 0
        /\ \A i \in 1..Len(wfs_requests) : wfs_requests[i] = (i - 1) * P
        /\ Len(wfs_requests) <= CeilDiv(N, P)

\* C4 witness: three hits fetched in pages of two, all rows written
C4_Witness ==
    /\ wfs_pc = "returned"
    /\ Len(wfs_data) = 3
    /\ wfs_page = 2
    /\ wfs_requests = <<0, 2>>
    /\ Len(fs[PandPath].rows) = 3

\* C5: when the building service reports 0 records for the region, the
\* region is still completed without error and its "pand" entry is a layer
\* of exactly one placeholder row.
C5_ZeroHitsPlaceholder ==
    (Len(wfs_data) = 0 /\ wfs_pc = "returned") =>
        /\ bag_pc # "raised"
        /\ bag_pc = "done" =>
              /\ bag_map = PandPath
              /\ fs[PandPath].exists
              /\ Len(fs[PandPath].rows) = 1
              /\ fs[PandPath].rows[1].empty

\* C6: with a non-empty filter statement, the layer stored under "pand"
\* holds no feature the statement deletes (none built after the cutoff).
C6_FilterReachesPand ==
    (bag_pc = "done" /\ bag_filter) =>
        \A i \in 1..Len(fs[PandPath].rows) : ~(fs[PandPath].rows[i].year > Cutoff)

InputInAllowList ==
    {i \in 1..Len(prep_in.layer.rows) :
        prep_in.layer.rows[i].geom \in prep_in.args.geom_types}

IsPlaceholder(r) ==
    r.geom = "MultiPolygon" /\ r.empty /\ r.src = NaN /\ r.year = NoYear

OutputSchema ==
    prep_in.layer.cols \cup (IF prep_in.args.has_new_attr THEN {"DN"} ELSE {})

\* C7 as stated: for every allow-list G, every row of the output has a
\* geometry type in G; the output is never empty, and is one placeholder
\* row with the schema and CRS of D when no row of D has a type in G.
C7_EveryRowInAllowList ==
    (prep_pc = "done" /\ prep_in.args.has_geom_types) =>
        /\ prep_out.layer.rows # <<>>
        /\ \A i \in 1..Len(prep_out.layer.rows) :
              prep_out.layer.rows[i].geom \in prep_in.args.geom_types
        /\ InputInAllowList = {} =>
              /\ Len(prep_out.layer.rows) = 1
              /\ prep_out.layer.cols = OutputSchema
              /\ prep_out.layer.crs = prep_in.layer.crs

\* C7 amended: every row of the output is a row of D with a geometry type
\* in G, or the placeholder; the output is never empty; when no row of D
\* has a type in G the output is exactly one placeholder row, an empty
\* MultiPolygon (in G only when G lists MultiPolygon), with the attribute
\* schema and CRS of D; otherwise it has exactly the rows of D in G.
C7_RowsInAllowListOrPlaceholder ==
    (prep_pc = "done" /\ prep_in.args.has_geom_types) =>
        /\ prep_out.layer.rows # <<>>
        /\ prep_out.layer.cols = OutputSchema
        /\ prep_out.layer.crs = prep_in.layer.crs
        /\ IF InputInAllowList = {}
           THEN /\ Len(prep_out.layer.rows) = 1
                /\ IsPlaceholder(prep_out.layer.rows[1])
           ELSE /\ Len(prep_out.layer.rows) = Cardinality(InputInAllowList)
                /\ \A i \in 1..Len(prep_out.layer.rows) :
                      /\ prep_out.layer.rows[i].geom \in prep_in.args.geom_types
                      /\ ~prep_out.layer.rows[i].empty

\* C7 witness: rows of D were dropped by an allow-list without MultiPolygon
\* and the placeholder row was written
C7_Witness ==
    /\ prep_pc = "done"
    /\ prep_in.args.has_geom_types
    /\ "MultiPolygon" \notin prep_in.args.geom_types
    /\ Len(prep_in.layer.rows) = 2
    /\ Len(prep_out.layer.rows) = 1
    /\ IsPlaceholder(prep_out.layer.rows[1])

\* C8: after prepare_data the injected attribute is a column of the output
\* and is non-null on every row, the placeholder row included, for a
\* constant class code and for a lookup with unmapped or missing values.
C8_InjectedNonNull ==
    (prep_pc = "done" /\ prep_in.args.has_new_attr) =>
        /\ "DN" \in prep_out.layer.cols
        /\ \A i \in 1..Len(prep_out.layer.rows) : prep_out.layer.rows[i].dn # NaN

\* C8 witness: a lookup over the placeholder row and the fallback fill
C8_Witness ==
    /\ prep_pc = "done"
    /\ prep_in.args.has_new_attr
    /\ prep_in.args.is_dict
    /\ Len(prep_out.layer.rows) = 1
    /\ IsPlaceholder(prep_out.layer.rows[1])
    /\ prep_out.layer.rows[1].dn = prep_in.args.default_fill

StageIndex(stage) == CHOOSE k \in 1..Len(Stages) : Stages[k] = stage

C10_TiledEqualsWhole ==
    (rst_pc = "done" /\ rst_in.tiled) => rst_dst = WholeGrid(rst_in)

\* C10 witness: tiles smaller than the grid that do not divide it, and a
\* pixel that a shape has burnt
C10_Witness ==
    /\ rst_pc = "done"
    /\ rst_in.tiled
    /\ rst_in.th < rst_in.height /\ rst_in.height % rst_in.th # 0
    /\ rst_in.tw < rst_in.width /\ rst_in.width % rst_in.tw # 0
    /\ Len(rst_in.layers) = 2
    /\ \E r \in 0..(rst_in.height - 1), c \in 0..(rst_in.width - 1) :
          rst_dst[0][r][c] # Fill

RECURSIVE LastShapeValue(_, _, _)
\* the value of the last shape of `shapes` that covers the cell, `none` if
\* no shape covers it
LastShapeValue(shapes, cell, none) ==
    IF shapes = <<>> THEN none
    ELSE IF Covers(shapes[Len(shapes)], cell) THEN shapes[Len(shapes)].value
    ELSE LastShapeValue(SubSeq(shapes, 1, Len(shapes) - 1), cell, none)

LayerCovers(shapes, cell) == \E k \in 1..Len(shapes) : Covers(shapes[k], cell)

\* C11: in stack mode the image has one band per input layer and band i
\* holds only the shapes of layer i; in burn mode it has one band in which,
\* under the replace algorithm, a pixel holds the value the last-listed
\* covering layer gives it, and a pixel that no layer covers holds the fill.
C11_BandsPerMode ==
    rst_pc = "done" =>
        LET layers == rst_in.layers
            cells  == (0..(rst_in.height - 1)) \X (0..(rst_in.width - 1))
        IN  /\ rst_in.mode = "stack" =>
                /\ DOMAIN rst_dst = 0..(Len(layers) - 1)
                /\ rst_in.merge_alg = "replace" =>
                      \A i \in 1..Len(layers) : \A cell \in cells :
                          rst_dst[i - 1][cell[1]][cell[2]]
                              = LastShapeValue(layers[i], cell, Fill)
                /\ \A i \in 1..Len(layers) : \A cell \in cells :
                      ~LayerCovers(layers[i], cell)
                          => rst_dst[i - 1][cell[1]][cell[2]] = Fill
            /\ rst_in.mode = "burn" =>
                /\ DOMAIN rst_dst = {0}
                /\ \A cell \in cells :
                      LET covering == {i \in 1..Len(layers) : LayerCovers(layers[i], cell)}
                      IN  IF covering = {}
                          THEN rst_dst[0][cell[1]][cell[2]] = Fill
                          ELSE rst_in.merge_alg = "replace" =>
                                  LET last == CHOOSE i \in covering :
                                                \A j \in covering : j <= i
                                  IN  rst_dst[0][cell[1]][cell[2]]
                                          = LastShapeValue(layers[last], cell, Fill)

\* C11 witness: a stack of two layers whose shapes overlap at pixel (1, 1),
\* each band holding its own layer's value there
C11_Witness ==
    /\ rst_pc = "done"
    /\ rst_in.mode = "stack"
    /\ rst_in.merge_alg = "replace"
    /\ rst_in.layers = <<(<<ShapeA>>), (<<ShapeB>>)>>
    /\ rst_in.height >= 2 /\ rst_in.width >= 2
    /\ rst_dst[0][1][1] = ShapeA.value
    /\ rst_dst[1][1][1] = ShapeB.value
    /\ rst_dst[1][0][1] = Fill

\* a class value of some layer lies outside the target dtype
HasUnrepresentable(in) ==
    \E i \in 1..Len(in.layers) : \E k \in 1..Len(in.layers[i]) :
        in.layers[i][k].value \notin DtypeRange(in.dtype)

C13_SuffixAppendedVerbatim ==
    /\ \A c \in DOMAIN wfs_renamed \cap {"fid", "FID"} :
          wfs_renamed[c] = Join(c, wfs_suffix)
    /\ (\E c \in {"fid", "FID"} : Join(c, wfs_suffix) \in wfs_cols)
          => ~fs[PandPath].exists

\* C13 amended: fid is written as fid + fid_suffix and FID as FID + the
\* upper-cased fid_suffix, every other column keeps its name, and when the
\* page already has a column of one of these two names the call raises with
\* the page unwritten.
C13_FidRenamedUpperForFID ==
    /\ \A c \in DOMAIN wfs_renamed :
          wfs_renamed[c] = (IF c = "fid" THEN Join("fid", wfs_suffix)
                            ELSE IF c = "FID" THEN Join("FID", Upper(wfs_suffix))
                            ELSE c)
    /\ fs[PandPath].exists =>
          /\ DOMAIN wfs_renamed = wfs_cols
          /\ fs[PandPath].cols = {"geometry"} \cup {wfs_renamed[c] : c \in wfs_cols}
          /\ fs[PandPath].cols \cap {"fid", "FID"} = {}
    /\ (Join("fid", wfs_suffix) \in wfs_cols \/ Join("FID", Upper(wfs_suffix)) \in wfs_cols)
          => /\ ~fs[PandPath].exists
             /\ wfs_pc = "returned" => Len(wfs_data) = 0
             /\ wfs_requests # <<>> => wfs_pc = "raised"

\* C13 witness: two pages written, with FID stored as FID_ORIGINAL and fid
\* as fid_original
C13_Witness ==
    /\ wfs_pc = "returned"
    /\ Len(wfs_requests) = 2
    /\ wfs_suffix = "_original"
    /\ {"fid", "FID"} \subseteq wfs_cols
    /\ {"fid_original", "FID_ORIGINAL"} \subseteq fs[PandPath].cols

\* no remote request for a type name follows a successful one for it
NoRequestAfterSuccess(log) ==
    \A i \in 1..Len(log) : \A j \in (i + 1)..Len(log) :
        (log[i][1] = log[j][1]) => log[i][2] = "raise"

\* C14: over any sequence of fetch_schema, get_feature and stream_feature
\* calls on one client, a cache entry once populated never changes, a step
\* changes no entry but that of the type name the call is about, and the
\* remote schema request is issued only for a type name without an entry,
\* hence at most once after it has succeeded.
C14_CachePopulatedOnce ==
    [][ /\ \A t \in TypeNames : sch_cache[t] # Absent => sch_cache'[t] = sch_cache[t]
        /\ \A t \in TypeNames :
              (sch_calls' # <<>> /\ t # sch_calls'[Len(sch_calls')][2])
                  => sch_cache'[t] = sch_cache[t]
        /\ sch_log' # sch_log =>
              /\ sch_cache[sch_log'[Len(sch_log')][1]] = Absent
              /\ sch_log'[Len(sch_log')][1] = sch_calls'[Len(sch_calls')][2]
        /\ NoRequestAfterSuccess(sch_log')
      ]_vars

\* C14 witness: the first request for a type name failed, the second call
\* fetched its schema, and a third call on the type name issued no further
\* request; the other type name has no entry
C14_Witness ==
    /\ sch_pc = "ready"
    /\ sch_calls = << <<"fetch_schema", "bgt:pand">>, <<"get_feature", "bgt:pand">>,
                      <<"get_feature", "bgt:pand">> >>
    /\ sch_log = << <<"bgt:pand", "raise">>, <<"bgt:pand", "schemaA">> >>
    /\ sch_cache["bgt:pand"] = "schemaA"
    /\ sch_cache["BAG3D:lod12"] = Absent

\* the features of a member that convert
GoodFeatures(feats) == LET Good(f) == f # "bad" IN SelectSeq(feats, Good)

\* C15: a feature that fails to convert is skipped: the translation of a
\* layer never ends bgt_convert with an error, and the converted layer holds
\* the member's remaining features.
C15_MalformedFeatureSkipped ==
    /\ cnv_err # "translate"
    /\ cnv_pc = "clean" => Last(cnv_map) = <<cnv_cur.name, GoodFeatures(cnv_cur.feats)>>

\* C18: after bgt_convert has returned, with clean_up set no extracted file
\* is left and the zip file is deleted; without it every extracted file and
\* the zip file are still there.
C18_CleanUpRemovesFilesAndZip ==
    cnv_pc = "returned" =>
        IF cnv_args.clean_up
        THEN cnv_disk = {} /\ ~cnv_zip
        ELSE cnv_zip /\ cnv_disk = {cnv_map[i][1] : i \in 1..Len(cnv_map)}

IsStale(ref) == ref \in {StaleImgeo, StaleSimple}

\* C20: in a conversion started by MapProcessor.convert, the first time the
\* vector parser opens a member's extracted file its schemaLocation holds no
\* reference to a stale schema URI.
C20_StaleRewrittenBeforeOpen ==
    cnv_args.via = "convert" =>
        \A i \in 1..Len(cnv_opens) :
            (\A j \in 1..(i - 1) : cnv_opens[j][1] # cnv_opens[i][1])
                => \A k \in 1..Len(cnv_opens[i][2]) : ~IsStale(cnv_opens[i][2][k])

\* C16: when a stage has failed, the files of every region completed before
\* are as they were when that region completed, and each of them is there.
C16_CompletedRegionsUntouched ==
    proc_pc = "raised" =>
        \A i \in 1..Len(proc_out) :
            /\ proc_files[proc_zip[proc_out[i]]] = proc_snap[i]
            /\ proc_snap[i].prepare = proc_out[i]

\* C17: with a progress sink, whenever an in-progress (200) response that
\* carries a completion is followed by the next poll, the preparation task
\* of the sink shows that completion when the poll is issued.
C17_ProgressSurfaced ==
    [][ ( /\ bgt_pc = "polling"
          /\ bgt_sink.present
          /\ bgt_resp.status = 200
          /\ bgt_resp.has_progress
          /\ bgt_seen' # bgt_seen )
        => bgt_sink'.tasks[bgt_task.id + 1].completed = bgt_resp.progress
      ]_vars

\* C19: get_hits ends in one of three ways: on a service-exception document
\* with an error carrying the service's exception text; otherwise, when the
\* count is missing or is no integer, with a value error; otherwise by
\* returning the count as an integer.
C19_ThreeOutcomes ==
    hits_pc = "done" =>
        IF hits_resp.body \in {"exception", "exception_bare"}
        THEN hits_out.kind = "ServiceException"
        ELSE IF hits_resp.body = "not_xml" \/ ~ParsesAsInt(hits_resp.count)
        THEN hits_out.kind = "ValueError"
        ELSE hits_out = Ended("return", IntOf(hits_resp.count), "")

\* C21: a turn of the polling loop that saw status 200 polls again, and the
\* loop is never left while the last response is 200; a response with
\* another status ends the loop at once, and download() then terminates.
PollingOn200 == bgt_pc = "polling" /\ bgt_resp.status = 200
Terminated   == bgt_pc \in {"returned", "raised"}

C21_LoopEndsExactlyOnNon200 ==
    /\ [][PollingOn200 => bgt_pc' = "polling"]_vars
    /\ [][bgt_pc = "polling" /\ bgt_resp.status # 200 => bgt_pc' # "polling"]_vars
    /\ [](bgt_pc \in {"streaming", "returned"} => Last(bgt_seen) # 200)
    /\ ((bgt_pc = "polling" /\ bgt_resp.status # 200) ~> Terminated)

\* C21 as the code has it: the loop is also left, with a KeyError, by a 200
\* response that carries no progress value while the preparation task has a
\* non-zero id; in no other way does a 200 response end it.
C21_LoopEndsOnNon200OrMissingProgress ==
    /\ [][PollingOn200 /\ bgt_pc' # "polling" =>
            /\ TaskTruthy(bgt_task) /\ ~bgt_resp.has_progress
            /\ bgt_pc' = "raised" /\ bgt_err' = "KeyError"]_vars
    /\ [][PollingOn200 /\ ~(TaskTruthy(bgt_task) /\ ~bgt_resp.has_progress)
            /\ Len(bgt_seen) < MaxPolls => ENABLED BgtPollAgain]_vars
    /\ [][bgt_pc = "polling" /\ bgt_resp.status # 200 => bgt_pc' # "polling"]_vars
    /\ [](bgt_pc \in {"streaming", "returned"} => Last(bgt_seen) # 200)
    /\ ((bgt_pc = "polling" /\ bgt_resp.status # 200) ~> Terminated)

\* three 200 responses were polled through, then a 404 ended the loop and
\* download() raised
C21_Witness ==
    /\ bgt_seen = <<200, 200, 200, 404>>
    /\ bgt_pc = "raised"
    /\ bgt_err = "HTTPError"

\* C22: the windows a tiled call writes lie inside the grid and have a
\* positive height and width, no two of them share a pixel, and once the
\* call has ended every pixel of the grid lies in exactly one of them.
InWindow(window, r, c) ==
    /\ window.row_off <= r /\ r < window.row_off + window.height
    /\ window.col_off <= c /\ c < window.col_off + window.width

WindowsAt(r, c) == {k \in 1..Len(rst_wins) : InWindow(rst_wins[k], r, c)}

C22_TilesPartitionGrid ==
    rst_in.tiled =>
       /\ \A k \in 1..Len(rst_wins) :
             /\ rst_wins[k].row_off >= 0 /\ rst_wins[k].col_off >= 0
             /\ rst_wins[k].height > 0 /\ rst_wins[k].width > 0
             /\ rst_wins[k].row_off + rst_wins[k].height <= rst_in.height
             /\ rst_wins[k].col_off + rst_wins[k].width <= rst_in.width
       /\ \A r \in 0..MaxDim, c \in 0..MaxDim : Cardinality(WindowsAt(r, c)) <= 1
       /\ rst_pc = "done" =>
             \A r \in 0..(rst_in.height - 1), c \in 0..(rst_in.width - 1) :
                Cardinality(WindowsAt(r, c)) = 1

\* a grid of 3 by 3 in tiles of 2 by 2: four windows, three of them clipped
C22_Witness ==
    /\ rst_pc = "done"
    /\ rst_in.tiled /\ rst_in.height = 3 /\ rst_in.width = 3
    /\ rst_in.th = 2 /\ rst_in.tw = 2
    /\ Len(rst_wins) = 4
    /\ rst_wins[4] = [row_off |-> 2, col_off |-> 2, height |-> 1, width |-> 1]

\* C23: the row indices of the pages written form one contiguous range that
\* begins at start_index, without a gap and without a duplicate.
C23_IndicesContiguous ==
    \A i \in 1..Len(fs[PandPath].rows) :
        fs[PandPath].rows[i].idx = wfs_start + i - 1

\* C24: called with the default mode, the first page write creates the
\* destination layer and every later one appends to it, so a page write
\* never changes a row written before; the first page is fetched without a
\* schema and every later page with the schema the file had after page 1.
IsPrefix(a, b) == Len(a) <= Len(b) /\ SubSeq(b, 1, Len(a)) = a

C24_FirstCreatesLaterAppend ==
    /\ [](\A i \in 1..Len(wfs_writes) : wfs_writes[i] = IF i = 1 THEN "w" ELSE "a")
    /\ [][fs[PandPath].exists => /\ fs'[PandPath].exists
                                 /\ fs'[PandPath].cols = fs[PandPath].cols
                                 /\ IsPrefix(fs[PandPath].rows, fs'[PandPath].rows)]_vars
    /\ [][Len(wfs_writes') > Len(wfs_writes) =>
            Len(fs'[PandPath].rows) > Len(fs[PandPath].rows)]_vars
    /\ [](\A i \in 1..Len(wfs_passed) :
            wfs_passed[i] = IF i = 1 THEN NoSchema
                            ELSE [set |-> TRUE, cols |-> fs[PandPath].cols])
    /\ [](Len(wfs_writes) >= 1 =>
            wfs_schema = [set  |-> TRUE,
                          cols |-> {"geometry"} \cup {wfs_renamed[c] : c \in wfs_cols}])

\* C24 witness: three rows in pages of two, the second page appended after
\* the first and fetched with the schema read back from the file
C24_Witness ==
    /\ wfs_pc = "returned"
    /\ wfs_writes = <<"w", "a">>
    /\ Len(fs[PandPath].rows) = 3
    /\ wfs_passed[2].set /\ "fid_original" \in wfs_passed[2].cols

\* C25: a layer whose type has an alteration statement is altered before
\* prepare_data reads it, so that in the prepared road layer every row whose
\* bgt-functie is transitie has relatieveHoogteligging -1 and the rows are
\* in the order of the altered values; a layer of a type without an
\* alteration is prepared from the file as it was converted.
Position(log, entry) == CHOOSE k \in 1..Len(log) : log[k] = entry

Sorted(rows) ==
    \A i \in 1..Len(rows) : \A j \in (i + 1)..Len(rows) :
        rows[j].h = NoHeight \/ (rows[i].h # NoHeight /\ rows[i].h <= rows[j].h)

InputOf(layer_name) ==
    LET k == CHOOSE k \in 1..Len(mp_in) : mp_in[k][1] = layer_name IN mp_in[k][2]

C25_AlteredBeforeHarmonized ==
    /\ \A k \in 1..Len(mp_log) :
          (mp_log[k][2] = "prepare" /\ mp_log[k][1] = "wegdeel") =>
             /\ <<"wegdeel", "alter">> \in {mp_log[j] : j \in 1..Len(mp_log)}
             /\ Position(mp_log, <<"wegdeel", "alter">>) < k
    /\ \A k \in 1..Len(mp_log) : mp_log[k][2] = "alter" => mp_log[k][1] = "wegdeel"
    /\ \A i \in 1..Len(mp_dst) :
          LET layer_name == mp_dst[i][1]
              prepared   == mp_dst[i][2]
          IN  IF layer_name = "wegdeel"
              THEN /\ \A j \in 1..Len(prepared.rows) :
                         prepared.rows[j].src = "transitie" => prepared.rows[j].h = 0 - 1
                   /\ Sorted(prepared.rows)
              ELSE prepared = PrepareData(InputOf(layer_name),
                                          MpPrepareArgs(layer_name)).layer

\* C25 witness: a road layer whose second row was a transitie at level 1 is
\* prepared with that row first, at level -1
C25_Witness ==
    /\ mp_pc = "yielded"
    /\ \E i \in 1..Len(mp_in) :
          /\ mp_in[i][1] = "wegdeel"
          /\ Len(mp_in[i][2].rows) = 2
          /\ mp_in[i][2].rows[1].src = "voetpad" /\ mp_in[i][2].rows[1].geom = "MultiPolygon"
          /\ mp_in[i][2].rows[2].src = "transitie" /\ mp_in[i][2].rows[2].h = 1
          /\ mp_in[i][2].rows[2].geom = "MultiPolygon"
    /\ \E i \in 1..Len(mp_dst) :
          /\ mp_dst[i][1] = "wegdeel"
          /\ Len(mp_dst[i][2].rows) = 2
          /\ mp_dst[i][2].rows[1].src = "transitie"
          /\ mp_dst[i][2].rows[1].h = 0 - 1
          /\ mp_dst[i][2].rows[1].dn = "82"

\* C27: a layer whose name the table does not hold is prepared with the
\* fallback entry, a constant class code equal to the nodata value, and is
\* in the region's output map; prepare does not fail for it.
C27_UnknownLayerUsesFallback ==
    /\ mp_pc # "raised"
    /\ mp_pc = "yielded" =>
          \A k \in 1..Len(mp_in) :
             mp_in[k][1] \notin DOMAIN LayerTable =>
                \E i \in 1..Len(mp_dst) :
                   /\ mp_dst[i][1] = mp_in[k][1]
                   /\ \A j \in 1..Len(mp_dst[i][2].rows) :
                         mp_dst[i][2].rows[j].dn = NodataValue

\* C26: a call with a mode that is neither burn nor stack in any letter
\* case ends by raising and never opens the destination: the path holds
\* what it held before the call; a mode that differs from them only in
\* letter case is accepted.
C26_UnknownModeRaisesBeforeOpen ==
    /\ LowerMode(rst_in.mode) \notin {"burn", "stack"} =>
          /\ rst_pc \in {"start", "raised"}
          /\ rst_pc = "start" => ENABLED RstOpen
          /\ rst_dst = <<>>
          /\ rst_disk = IF rst_in.existing THEN "old" ELSE "absent"
    /\ (rst_in.mode \in {"Burn", "STACK"} /\ ~HasUnrepresentable(rst_in)) =>
          rst_pc # "raised"

\* C26 witness: mode "merge" over an existing destination has raised and
\* the old file is still there
C26_Witness ==
    /\ rst_pc = "raised"
    /\ rst_in.mode = "merge"
    /\ rst_in.existing
    /\ rst_disk = "old"

\* C28: two different features of the ROI source never get the same archive
\* path, so the archive and the converted layers of a region are never
\* overwritten by those of another region of the run.
C28_DistinctArchivePaths ==
    /\ \A i \in 1..MaxRegions : \A j \in 1..MaxRegions :
          (i # j /\ proc_zip[i] # "none" /\ proc_zip[j] # "none")
             => proc_zip[i] # proc_zip[j]
    /\ \A k \in 1..Len(proc_out) :
          LET files == proc_files[proc_zip[proc_out[k]]] IN
          /\ files.download \in {0, proc_out[k]}
          /\ files.convert \in {0, proc_out[k]}

\* what download() without a progress sink makes of the poll responses: it
\* leaves the loop on the first status other than 200, opens the
\* destination after a 201 unless the download request fails, and after any
\* other status raises for an error class and returns otherwise
SinklessOutcome ==
    LET last == Last(bgt_seen) IN
    /\ last # 200
    /\ last = 201 => (bgt_dst.opened \/ (bgt_pc = "raised" /\ bgt_err = "HTTPError"))
    /\ last # 201 => /\ ~bgt_dst.opened
                     /\ bgt_pc = "raised" <=> RaisesForStatus(last)
                     /\ bgt_pc = "raised" => bgt_err = "HTTPError"

\* C29: with or without a progress sink, download() ends as the poll
\* responses alone decide; a 201 response without a progress field leads
\* to the destination being written.
C29_SameOutcomeWithOrWithoutSink ==
    (bgt_pc \in {"streaming", "returned", "raised"} /\ bgt_seen # <<>>) => SinklessOutcome

\* C30: the download of a region is requested only after the region before
\* it has gone through its last stage and has been collected, and once a
\* stage has failed nothing more is requested or written for any region.
LastStage == IF proc_bag THEN "bag" ELSE "prepare"

C30_LazyInterleaving ==
    /\ [](\A i \in 2..Len(proc_log) :
            proc_log[i][2] = "download" =>
               /\ proc_log[i - 1][2] = LastStage
               /\ proc_log[i - 1][3] = "ok"
               /\ proc_log[i - 1][1] < proc_log[i][1]
               /\ \E k \in 1..Len(proc_out) : proc_out[k] = proc_log[i - 1][1])
    /\ [](\A i \in 1..Len(proc_log) : \A j \in (i + 1)..Len(proc_log) :
            proc_log[i][1] <= proc_log[j][1])
    /\ [][proc_pc = "raised" => UNCHANGED <<proc_log, proc_files, proc_zip, proc_roi>>]_vars
    /\ [](proc_pc = "raised" =>
            \A r \in 1..MaxRegions : r > Last(proc_log)[1] =>
               /\ proc_zip[r] = "none"
               /\ \A n \in FeatureNames : \A st \in DOMAIN NoFiles : proc_files[n][st] # r)

\* C30 witness: the first region failed in convert while a second polygon
\* was still unread; nothing was requested for the second
C30_Witness ==
    /\ proc_pc = "raised"
    /\ proc_log = <<(<<1, "download", "ok">>), (<<1, "convert", "raise">>)>>
    /\ Len(proc_roi) = 1
    /\ proc_roi[1].geom = "Polygon"

====
